---- MODULE Spec2Model ----
(***************************************************************************)
(* A model of the Redmine/CRF RAG chatbot: the /chat and /reset request    *)
(* handlers (session handling, engine routing, error handling),            *)
(* RedmineRAG.query (classifier dispatch, direct lookup, search, keyword   *)
(* post-processing, source generation), QueryHelperMixin._determine_top_k, *)
(* the conversation memory and the CRF statistics.                         *)
(*                                                                         *)
(* Questions are sequences of words.  Every word stands for one concrete   *)
(* string, and each pattern table of src/config/patterns.py is modelled by *)
(* the words of the vocabulary that its regular expressions match: a word  *)
(* matched anywhere (re.search of an unanchored pattern), a word matched   *)
(* only at the start of the question (a pattern anchored with ^), or a     *)
(* word matched only when it is the whole question (^...$).  Words whose   *)
(* real string is Korean carry a transliterated name:                      *)
(*     "nalssi"     = 날씨   (weather)                                      *)
(*     "geugeo"     = 그거   (that one)                                     *)
(*     "chai"       = 차이   (difference)                                   *)
(*     "seongneung" = 성능   (performance)                                  *)
(*     "choesin"    = 최신   (newest)                                       *)
(* The other words are the strings themselves.                             *)
(***************************************************************************)
EXTENDS Integers, Sequences, FiniteSets, TLC

VARIABLES
    crf_engine,   \* app.py:49-71  "None" or "crf": the optional domain-B engine
    session,      \* the Flask session carried by the client's cookie
    req,          \* the /chat request in flight and what it has done so far
    call,         \* one application of a function, for the function-level specifications
    conversation_collection,  \* rag_engine.py:16-67  the long-term conversation store
    turns         \* the user names of the successfully answered turns, oldest first

vars == <<crf_engine, session, req, call, conversation_collection, turns>>

\* the variables of the conversation memory, which routing and retrieval leave alone
memory == <<conversation_collection, turns>>

(***************************************************************************)
(* Bounds of the model.                                                    *)
(***************************************************************************)
MaxQLen == 2      \* words in a question
MaxDist == 2      \* largest finite top-1 distance, in units of 0.05
MaxDocs == 2      \* documents in the issue collection
MaxTopK == 2      \* largest configured top_k value

(***************************************************************************)
(* Values fixed by the program.                                            *)
(***************************************************************************)
\* C.ROUTING_SIMILARITY_THRESHOLD, 0.05 (app.py:149), in units of 0.05
ROUTING_SIMILARITY_THRESHOLD == 1

NoneV == "None"
NoDistance == 0 - 1                                   \* compare_collection_similarity was not called
Inf == MaxDist + ROUTING_SIMILARITY_THRESHOLD + 1     \* float('inf')

Users == {"alice", "bob"}

(***************************************************************************)
(* Vocabularies.                                                           *)
(***************************************************************************)
Vocab ==
    {"#123", "BC_01_001", "nalssi", "geugeo", "chai", "summary", "case",
     "field", "history", "seongneung", "resnet"}

SeqsUpTo(S, n) == UNION {[1..k -> S] : k \in 0..n}

Questions == SeqsUpTo(Vocab, MaxQLen)

(***************************************************************************)
(* Pattern matching on questions.                                          *)
(***************************************************************************)
\* re.search of an unanchored pattern that matches inside one of the words
AnyWord(q, S) == \E i \in 1..Len(q) : q[i] \in S
\* re.search of a pattern anchored at the start of the question
FirstWord(q, S) == Len(q) >= 1 /\ q[1] \in S
\* re.search of a pattern anchored at both ends
WholeQuestion(q, S) == Len(q) = 1 /\ q[1] \in S

\* P.ISSUE_ID_PATTERN with str(int(g)): the number each matching word names
IssueNumber(w) ==
    CASE w = "#123"  -> 123
      [] w = "#0123" -> 123
      [] w = "#456"  -> 456
      [] OTHER       -> 0
IssueWords == {"#123", "#0123", "#456"}

_extract_issue_ids(q) == {IssueNumber(q[i]) : i \in {j \in 1..Len(q) : q[j] \in IssueWords}}

\* P.CRF_RECORD_PATTERN, upper-cased
_extract_crf_record_ids(q) == {q[i] : i \in {j \in 1..Len(q) : q[j] \in {"BC_01_001"}}}

_is_general_conversation(q) ==
    \/ AnyWord(q, {"nalssi"})
    \/ WholeQuestion(q, {"geugeo", "seongneung", "hello"})

_is_conversation_history_query(q) == AnyWord(q, {"history"})

_is_metadata_query(q) == AnyWord(q, {"field"})

_is_sample_query(q) == AnyWord(q, {"case"})

MatchesStatisticsPattern(q) == AnyWord(q, {"summary"})

\* the statistics test without the exclusion of sample requests
_is_statistics_query_NoSampleCheck(q) ==
    IF _is_metadata_query(q) THEN FALSE
    ELSE MatchesStatisticsPattern(q)

_is_statistics_query(q) ==
    IF _is_metadata_query(q) THEN FALSE
    ELSE IF _is_sample_query(q) THEN FALSE
    ELSE MatchesStatisticsPattern(q)

_is_recent_query(q) == AnyWord(q, {"recent", "choesin"})

_is_version_or_comparison_query(q) == AnyWord(q, {"chai", "choesin", "version"})

_is_specific_technical_query(q) == AnyWord(q, {"gpu"})

is_crf_data_query(q) == AnyWord(q, {"BC_01_001"})

is_redmine_data_query(q) == AnyWord(q, {"seongneung"})

is_followup(q) == AnyWord(q, {"chai"}) \/ FirstWord(q, {"geugeo"})

(***************************************************************************)
(* compare_collection_similarity: the top-1 distance of the question in    *)
(* the engine's collection, or inf when the embedding call or the index    *)
(* query raised or the collection returned nothing.  queried tells whether *)
(* the index query was issued.                                             *)
(***************************************************************************)
compare_collection_similarity ==
    {[distance |-> d, queried |-> TRUE] : d \in 0..MaxDist}
        \cup {[distance |-> Inf, queried |-> TRUE], [distance |-> Inf, queried |-> FALSE]}

\* the comparison without the threshold: a < b
LessByThreshold_NoThreshold(a, b) ==
    IF a = Inf THEN FALSE
    ELSE IF b = Inf THEN TRUE
    ELSE a < b

\* a < b - ROUTING_SIMILARITY_THRESHOLD on floats, inf included
LessByThreshold(a, b) ==
    IF a = Inf THEN FALSE
    ELSE IF b = Inf THEN TRUE
    ELSE a < b - ROUTING_SIMILARITY_THRESHOLD

\* the domain-A test without the exact identifier
is_redmine_query_KeywordsOnly(q) == is_redmine_data_query(q)

is_redmine_query(q) == _extract_issue_ids(q) # {} \/ is_redmine_data_query(q)

is_crf_query(q, crf) == crf # NoneV /\ is_crf_data_query(q)

\* app.py:152-169: the choice between the two engines by their top-1 distances
RouteByDistance(last_engine, crf_distance, redmine_distance) ==
    IF LessByThreshold(crf_distance, redmine_distance)
        THEN [engine_name |-> "crf", route |-> "distance"]
    ELSE IF LessByThreshold(redmine_distance, crf_distance)
        THEN [engine_name |-> "redmine", route |-> "distance"]
    ELSE IF last_engine = "crf" THEN [engine_name |-> "crf", route |-> "tie"]
    ELSE [engine_name |-> "redmine", route |-> "tie"]

\* the routing decision without the follow-up branch
RouteByKeyword_NoFollowup(q, last_engine, crf) ==
    IF is_redmine_query(q) THEN [engine_name |-> "redmine", route |-> "keyword"]
    ELSE IF is_crf_query(q, crf) /\ ~is_redmine_query(q)
        THEN [engine_name |-> "crf", route |-> "keyword"]
    ELSE IF crf # NoneV THEN [engine_name |-> NoneV, route |-> "compare"]
    ELSE [engine_name |-> "redmine", route |-> "no_crf"]

\* the routing decision whose follow-up branch does not test the CRF engine
RouteByKeyword_FollowupWithoutCrf(q, last_engine, crf) ==
    IF is_redmine_query(q) THEN [engine_name |-> "redmine", route |-> "keyword"]
    ELSE IF is_crf_query(q, crf) /\ ~is_redmine_query(q)
        THEN [engine_name |-> "crf", route |-> "keyword"]
    ELSE IF last_engine # NoneV /\ is_followup(q) THEN
        IF last_engine = "crf" THEN [engine_name |-> "crf", route |-> "followup"]
        ELSE [engine_name |-> "redmine", route |-> "followup"]
    ELSE IF crf # NoneV THEN [engine_name |-> NoneV, route |-> "compare"]
    ELSE [engine_name |-> "redmine", route |-> "no_crf"]

\* app.py:109-173: the routing decision up to the comparison branch, which is
\* reported as route "compare" with the engine still open
RouteByKeyword(q, last_engine, crf) ==
    IF is_redmine_query(q) THEN [engine_name |-> "redmine", route |-> "keyword"]
    ELSE IF is_crf_query(q, crf) /\ ~is_redmine_query(q)
        THEN [engine_name |-> "crf", route |-> "keyword"]
    ELSE IF last_engine # NoneV /\ is_followup(q) /\ crf # NoneV THEN
        IF last_engine = "crf" THEN [engine_name |-> "crf", route |-> "followup"]
        ELSE [engine_name |-> "redmine", route |-> "followup"]
    ELSE IF crf # NoneV THEN [engine_name |-> NoneV, route |-> "compare"]
    ELSE [engine_name |-> "redmine", route |-> "no_crf"]

\* the index calls made by the two similarity computations
CompareCalls(crf_result, redmine_result) ==
    (IF crf_result.queried THEN {"crf.query"} ELSE {})
        \cup (IF redmine_result.queried THEN {"redmine.query"} ELSE {})

(***************************************************************************)
(* The collections.  The issue collection is a list of documents in        *)
(* storage order; a document carries the issue it belongs to and where the *)
(* model keyword "resnet" occurs in it: nowhere ("none"), in its subject   *)
(* only ("subject"), or in its body ("body").  A collection stores         *)
(* issue_id either as strings or as integers (int_ids).                    *)
(***************************************************************************)
IssueIds == {123, 456}
RecordIds == {"BC_01_001", "BC_02_002"}
DocKinds == [issue_id : IssueIds, kw : {"none", "subject", "body"}]
CrfDocKinds == [record_id : RecordIds]
Collections == [int_ids : BOOLEAN, docs : SeqsUpTo(DocKinds, MaxDocs)]

\* the collections the /chat model draws from: empty or holding one document
ProbeCollections(use_case) ==
    IF use_case = "crf" THEN [int_ids : {FALSE}, docs : SeqsUpTo(CrfDocKinds, 1)]
    ELSE [int_ids : BOOLEAN, docs : SeqsUpTo(DocKinds, 1)]

\* the dispatch without the general-conversation short circuit
Dispatch_NoGeneralShortCircuit(use_case, q) ==
    IF _is_conversation_history_query(q) THEN "history"
    ELSE IF use_case = "crf" /\ _is_metadata_query(q) THEN "metadata"
    ELSE IF use_case = "crf" /\ _is_statistics_query(q) THEN "statistics"
    ELSE "search"

\* the dispatch with the first two tests in the other order
Dispatch_HistoryBeforeGeneral(use_case, q) ==
    IF _is_conversation_history_query(q) THEN "history"
    ELSE IF _is_general_conversation(q) THEN "general"
    ELSE IF use_case = "crf" /\ _is_metadata_query(q) THEN "metadata"
    ELSE IF use_case = "crf" /\ _is_statistics_query(q) THEN "statistics"
    ELSE "search"

\* rag_engine.py:80-98: which handler answers the question
Dispatch(use_case, q) ==
    IF _is_general_conversation(q) THEN "general"
    ELSE IF _is_conversation_history_query(q) THEN "history"
    ELSE IF use_case = "crf" /\ _is_metadata_query(q) THEN "metadata"
    ELSE IF use_case = "crf" /\ _is_statistics_query(q) THEN "statistics"
    ELSE "search"

\* the index calls each short-circuit handler makes
\* (rag_engine_helpers.py:24, 44, 79, 104 and rag_utils.py:516)
HandlerCalls(handler) ==
    CASE handler = "general"    -> {}
      [] handler = "history"    -> {"conversation.get"}
      [] handler = "metadata"   -> {"crf.get"}
      [] handler = "statistics" -> {"crf.get"}
      [] OTHER                  -> {}

NoLookup == [looked_up |-> {}, documents |-> <<>>, gets |-> 0]

\* the direct lookup without the record-code branch
_perform_direct_lookup_IssuesOnly(use_case, q, coll) ==
    IF use_case = "redmine" THEN
        LET issue_ids == _extract_issue_ids(q)
            Matching == SelectSeq(coll.docs, LAMBDA d : d.issue_id \in issue_ids)
        IN  IF issue_ids = {} THEN NoLookup
            ELSE [looked_up |-> issue_ids, documents |-> Matching, gets |-> 1]
    ELSE NoLookup

\* the direct lookup without the retry by integer identifiers
_perform_direct_lookup_NoIntRetry(use_case, q, coll) ==
    IF use_case = "redmine" THEN
        LET issue_ids == _extract_issue_ids(q)
            Matching == SelectSeq(coll.docs, LAMBDA d : d.issue_id \in issue_ids)
        IN  IF issue_ids = {} THEN NoLookup
            ELSE [looked_up |-> issue_ids,
                  documents |-> IF coll.int_ids THEN <<>> ELSE Matching,
                  gets |-> 1]
    ELSE IF use_case = "crf" THEN
        LET record_ids == _extract_crf_record_ids(q)
        IN  IF record_ids = {} THEN NoLookup
            ELSE [looked_up |-> record_ids,
                  documents |-> SelectSeq(coll.docs, LAMBDA d : d.record_id \in record_ids),
                  gets |-> 1]
    ELSE NoLookup

\* rag_engine_helpers.py:236-282
_perform_direct_lookup(use_case, q, coll) ==
    IF use_case = "redmine" THEN
        LET issue_ids == _extract_issue_ids(q)
            Matching == SelectSeq(coll.docs, LAMBDA d : d.issue_id \in issue_ids)
            by_str == IF coll.int_ids THEN <<>> ELSE Matching
            by_int == IF coll.int_ids THEN Matching ELSE <<>>
        IN  IF issue_ids = {} THEN NoLookup
            ELSE IF by_str # <<>>
                THEN [looked_up |-> issue_ids, documents |-> by_str, gets |-> 1]
            ELSE [looked_up |-> issue_ids, documents |-> by_int, gets |-> 2]
    ELSE IF use_case = "crf" THEN
        LET record_ids == _extract_crf_record_ids(q)
        IN  IF record_ids = {} THEN NoLookup
            ELSE [looked_up |-> record_ids,
                  documents |-> SelectSeq(coll.docs, LAMBDA d : d.record_id \in record_ids),
                  gets |-> 1]
    ELSE NoLookup

\* rag_engine_helpers.py:438-472: the index calls of the direct lookup and of
\* the vector search that follows an absent or empty direct lookup
SearchCalls(use_case, direct) ==
    (IF direct.gets > 0 THEN {use_case \o ".get"} ELSE {})
        \cup (IF direct.documents = <<>> THEN {use_case \o ".query"} ELSE {})

(***************************************************************************)
(* Search, post-processing and answer generation of the redmine engine.    *)
(* A retrieved document is the stored document with its distance, in units *)
(* of 0.05.  The generated answer is represented by the set of issue       *)
(* numbers it mentions as #n.                                              *)
(***************************************************************************)
\* the filler distance 1.0 of a document added by keyword augmentation
KEYWORD_FILLER_DISTANCE == 20
\* the number of sources given when the answer mentions no issue
TOP_SOURCES == 5

ModelKeywords == {"resnet"}
LookupVocab == {"#123", "#0123", "resnet", "recent", "nalssi"}
LookupQuestions == SeqsUpTo(LookupVocab, MaxQLen)

\* a stored document with every field it has, and the distance it was found at
Retrieved(d, distance) ==
    [f \in DOMAIN d \cup {"distance"} |-> IF f = "distance" THEN distance ELSE d[f]]

Min(a, b) == IF a < b THEN a ELSE b

\* the first n entries of a list
FirstN(entries, n) == SubSeq(entries, 1, Min(n, Len(entries)))

\* a search that always asks the vector index
_search_documents_VectorOnly(direct, top_k, ranked) ==
    [entries |-> FirstN(ranked, top_k),
     embeds |-> <<"RETRIEVAL_QUERY">>,
     queries |-> <<top_k>>]

\* rag_engine_helpers.py:438-472: the retrieved entries, the task types of
\* the embedding calls made and the n_results of the vector queries made;
\* ranked is what the index holds for the search query, nearest first
_search_documents(direct, top_k, ranked) ==
    IF direct.documents # <<>>
    THEN [entries |-> [i \in 1..Len(direct.documents) |->
                          Retrieved(direct.documents[i], 0)],
          embeds |-> <<>>,
          queries |-> <<>>]
    ELSE [entries |-> FirstN(ranked, top_k),
          embeds |-> <<"RETRIEVAL_QUERY">>,
          queries |-> <<top_k>>]

\* rag_utils.py:294-312: the cached keywords that occur in the question
_extract_model_keywords(q, cache) == {q[i] : i \in 1..Len(q)} \cap ModelKeywords \cap cache

\* rag_utils.py:314-326
_contains_keywords(entries, keywords) ==
    keywords # {} /\ \E i \in 1..Len(entries) : entries[i].kw # "none"

\* rag_utils.py:369-375: collection.get(where_document $contains keyword, limit)
GetContaining(coll, limit) ==
    LET hits == SelectSeq(coll.docs, LAMBDA d : d.kw = "body")
    IN  SubSeq(hits, 1, Min(limit, Len(hits)))

\* rag_utils.py:380-387: the documents of issues not yet in the result
RECURSIVE ExtraDocs(_, _)
ExtraDocs(docs, existing_issue_ids) ==
    IF docs = <<>> THEN <<>>
    ELSE IF Head(docs).issue_id \in existing_issue_ids
        THEN ExtraDocs(Tail(docs), existing_issue_ids)
    ELSE <<Retrieved(Head(docs), KEYWORD_FILLER_DISTANCE)>>
             \o ExtraDocs(Tail(docs), existing_issue_ids \cup {Head(docs).issue_id})

\* rag_utils.py:350-395
_augment_with_keyword_matches(entries, keywords, coll, limit_per_keyword) ==
    IF keywords = {} \/ _contains_keywords(entries, keywords) THEN entries
    ELSE entries \o ExtraDocs(GetContaining(coll, limit_per_keyword),
                              {entries[i].issue_id : i \in 1..Len(entries)})

\* a filter that returns the matching documents even when there is none
_filter_by_keywords_MatchedOnly(entries, keywords) ==
    IF keywords = {} THEN entries
    ELSE SelectSeq(entries, LAMBDA e : e.kw # "none")

\* rag_utils.py:328-348
_filter_by_keywords(entries, keywords) ==
    IF keywords = {} THEN entries
    ELSE LET matched == SelectSeq(entries, LAMBDA e : e.kw # "none")
         IN  IF matched # <<>> THEN matched ELSE entries

\* rag_utils.py:408-426: the order by timestamp can be any order of the documents
Reorderings(entries) ==
    {[i \in 1..Len(entries) |-> entries[p[i]]] : p \in Permutations(1..Len(entries))}

\* rag_engine_helpers.py:474-518: the possible results of post-processing.
\* No question of LookupVocab holds a version token, so step 2 is skipped.
_post_process_documents(entries, q, coll, cache, limit_per_keyword) ==
    LET keywords == _extract_model_keywords(q, cache)
        kept == IF keywords # {}
                THEN _filter_by_keywords(
                         _augment_with_keyword_matches(entries, keywords, coll,
                                                       limit_per_keyword),
                         keywords)
                ELSE entries
    IN  IF _is_recent_query(q) THEN Reorderings(kept) ELSE {kept}

Source(e) == [issue_id |-> e.issue_id, distance |-> e.distance]

\* sort(key=int(issue_id)): a stable sort by issue number
RECURSIVE SortedByIssueId(_)
SortedByIssueId(sources) ==
    IF sources = <<>> THEN <<>>
    ELSE LET least == CHOOSE m \in {sources[i].issue_id : i \in 1..Len(sources)} :
                          \A i \in 1..Len(sources) : m <= sources[i].issue_id
         IN  SelectSeq(sources, LAMBDA x : x.issue_id = least)
                 \o SortedByIssueId(SelectSeq(sources, LAMBDA x : x.issue_id # least))

\* rag_engine_helpers.py:329-362
_generate_redmine_sources(entries, mentioned_issues) ==
    LET all_sources == [i \in 1..Len(entries) |-> Source(entries[i])]
    IN  IF mentioned_issues # {}
        THEN SortedByIssueId(SelectSeq(all_sources,
                                       LAMBDA x : x.issue_id \in mentioned_issues))
        ELSE SubSeq(all_sources, 1, Min(TOP_SOURCES, Len(all_sources)))

\* rag_engine_helpers.py:520-556
_generate_answer(entries, mentioned_issues) ==
    [sources |-> _generate_redmine_sources(entries, mentioned_issues),
     document_count |-> Len(entries)]

(***************************************************************************)
(* _determine_top_k.  C.DEFAULT_TOP_K is a table of the configuration; the *)
(* model ranges over every table with values in 1..MaxTopK.  The top_k     *)
(* argument is <<>> for None and <<k>> for the integer k.                  *)
(***************************************************************************)
TopKKeys == {"recent", "crf", "version", "technical", "general"}
TopKConfigs == [TopKKeys -> 1..MaxTopK]
TopKArgs == {<<>>} \cup {<<k>> : k \in 0..(MaxTopK + 1)}
TopKVocab == {"recent", "choesin", "version", "gpu", "hello"}
TopKQuestions == SeqsUpTo(TopKVocab, MaxQLen)

\* rag_engine_helpers.py:298-310: the value chosen when the caller gave none
AutoTopK(use_case, question, DEFAULT_TOP_K) ==
    IF use_case = "crf" THEN DEFAULT_TOP_K["crf"]
    ELSE IF _is_version_or_comparison_query(question) THEN DEFAULT_TOP_K["version"]
    ELSE IF _is_specific_technical_query(question) THEN DEFAULT_TOP_K["technical"]
    ELSE DEFAULT_TOP_K["general"]

\* top_k determination that raises only the automatically chosen value
_determine_top_k_ExplicitUnchanged(use_case, question, top_k, recent_query, DEFAULT_TOP_K) ==
    IF top_k # <<>> THEN top_k[1]
    ELSE LET auto == AutoTopK(use_case, question, DEFAULT_TOP_K)
         IN  IF recent_query /\ auto < DEFAULT_TOP_K["recent"]
             THEN DEFAULT_TOP_K["recent"]
             ELSE auto

\* rag_engine_helpers.py:288-314
_determine_top_k(use_case, question, top_k, recent_query, DEFAULT_TOP_K) ==
    IF top_k # <<>> THEN
        IF recent_query /\ top_k[1] < DEFAULT_TOP_K["recent"]
        THEN DEFAULT_TOP_K["recent"]
        ELSE top_k[1]
    ELSE LET auto == AutoTopK(use_case, question, DEFAULT_TOP_K)
         IN  IF recent_query /\ auto < DEFAULT_TOP_K["recent"]
             THEN DEFAULT_TOP_K["recent"]
             ELSE auto

Idle ==
    [pc |-> "idle", question |-> <<>>, user_name |-> "", last_engine |-> NoneV,
     engine_name |-> NoneV, route |-> NoneV, compared |-> FALSE,
     crf_distance |-> NoDistance, redmine_distance |-> NoDistance,
     index_calls |-> {}, handler |-> NoneV, query_calls |-> {},
     looked_up |-> {}, found |-> 0, saved |-> FALSE]

NoCall == [fn |-> NoneV]

\* rag_engine.py:50-67: the conversation collection right after it was created
NoConversations == [present |-> TRUE, docs |-> <<>>]

Init ==
    /\ conversation_collection = NoConversations
    /\ turns = <<>>
    /\ crf_engine \in {NoneV, "crf"}
    /\ session = [user_name |-> NoneV, last_engine |-> NoneV]
    /\ req = Idle
    /\ call = NoCall

AtRest == req.pc = "idle"

\* app.py:79-173: validation, session set-up and routing of one /chat request
ChatRoute ==
    /\ AtRest
    /\ \E question \in Questions, user_name \in Users \cup {""} :
        IF question = <<>> \/ user_name = ""
        THEN /\ req' = [Idle EXCEPT !.pc = "rejected", !.question = question,
                                    !.user_name = user_name]
             /\ UNCHANGED session
        ELSE LET sess == IF session.user_name # user_name
                         THEN [user_name |-> user_name, last_engine |-> NoneV]
                         ELSE session
                 last_engine == sess.last_engine
                 fast == RouteByKeyword(question, last_engine, crf_engine)
                 base == [Idle EXCEPT !.pc = "routed", !.question = question,
                                      !.user_name = user_name,
                                      !.last_engine = last_engine]
             IN  /\ session' = sess
                 /\ IF fast.route # "compare"
                    THEN req' = [base EXCEPT !.engine_name = fast.engine_name,
                                             !.route = fast.route]
                    ELSE \E crf_result \in compare_collection_similarity,
                            redmine_result \in compare_collection_similarity :
                            LET slow == RouteByDistance(last_engine, crf_result.distance,
                                                        redmine_result.distance)
                            IN  req' = [base EXCEPT
                                    !.engine_name = slow.engine_name,
                                    !.route = slow.route,
                                    !.compared = TRUE,
                                    !.crf_distance = crf_result.distance,
                                    !.redmine_distance = redmine_result.distance,
                                    !.index_calls = CompareCalls(crf_result, redmine_result)]
    /\ UNCHANGED <<memory, crf_engine, call>>

\* app.py:175-180 with rag_engine.py:69-138: the chosen engine answers the
\* question.  The request keeps which handler ran, the identifiers looked up
\* directly, how many documents the lookup found, and the index calls of the
\* handler, of the direct lookup, of the search of past turns (made when the
\* short-term history is long enough) and of the vector search; the calls of
\* post-processing are not recorded.
ChatQuery ==
    /\ req.pc = "routed"
    /\ LET use_case == req.engine_name
           handler == Dispatch(use_case, req.question)
           answered == [req EXCEPT !.pc = "answered", !.handler = handler,
                                   !.crf_distance = NoDistance,
                                   !.redmine_distance = NoDistance]
       IN  IF handler # "search"
           THEN req' = [answered EXCEPT !.query_calls = HandlerCalls(handler)]
           ELSE \E coll \in ProbeCollections(use_case),
                   history_calls \in SUBSET {"conversation.query"} :
                   LET direct == _perform_direct_lookup(use_case, req.question, coll)
                   IN  req' = [answered EXCEPT
                                   !.looked_up = direct.looked_up,
                                   !.found = Len(direct.documents),
                                   !.query_calls = SearchCalls(use_case, direct)
                                                       \cup history_calls]
    /\ UNCHANGED <<memory, crf_engine, session, call>>

\* app.py:182-196: the turn is saved (best effort: rag_utils.py:432-462 swallows
\* a failed embedding or upsert), the session is updated and the answer returned
\* (saved tells whether the turn reached the store, whose contents SpecSession
\* follows)
ChatFinish ==
    /\ req.pc = "answered"
    /\ \E saved \in BOOLEAN :
           req' = [req EXCEPT !.pc = "done", !.saved = saved]
    /\ session' = [session EXCEPT !.last_engine = req.engine_name]
    /\ UNCHANGED <<memory, crf_engine, call>>

\* app.py:49-71: the service is started again; the CRF store may have appeared
\* or disappeared, and the client's session cookie outlives the process
Restart ==
    /\ AtRest
    /\ crf_engine' \in {NoneV, "crf"}
    /\ req' = Idle
    /\ UNCHANGED <<memory, session, call>>

\* app.py:175-180 and 198-200 with rag_engine.py:136-138: query() raised; the
\* request is answered with an error and the session keeps its last_engine
ChatFail ==
    /\ req.pc = "routed"
    /\ req' = [req EXCEPT !.pc = "failed",
                          !.crf_distance = NoDistance,
                          !.redmine_distance = NoDistance]
    /\ UNCHANGED <<memory, crf_engine, session, call>>

\* the response has been sent (app.py:86, 88, 196, 200); the worker takes the
\* next request
ChatReturn ==
    /\ req.pc \in {"done", "rejected", "failed"}
    /\ req' = Idle
    /\ UNCHANGED <<memory, crf_engine, session, call>>

Next ==
    \/ ChatRoute
    \/ ChatQuery
    \/ ChatFinish
    \/ ChatFail
    \/ ChatReturn
    \/ Restart

Spec == Init /\ [][Next]_vars

(***************************************************************************)
(* SpecTopK: applications of _determine_top_k as query() makes them        *)
(* (rag_engine.py:78 and 111), under every configuration table.            *)
(***************************************************************************)
InitTopK ==
    /\ conversation_collection = NoConversations
    /\ turns = <<>>
    /\ crf_engine = NoneV
    /\ session = [user_name |-> NoneV, last_engine |-> NoneV]
    /\ req = Idle
    /\ call \in {[fn |-> "config", DEFAULT_TOP_K |-> c] : c \in TopKConfigs}

\* rag_engine.py:78, 111: recent_query = _is_recent_query(question), then
\* top_k = _determine_top_k(question, top_k, recent_query)
DetermineTopK ==
    /\ call.fn = "config"
    /\ \E use_case \in {"redmine", "crf"}, question \in TopKQuestions, top_k \in TopKArgs :
           LET recent_query == _is_recent_query(question)
           IN  call' = [fn |-> "_determine_top_k",
                        DEFAULT_TOP_K |-> call.DEFAULT_TOP_K,
                        use_case |-> use_case,
                        question |-> question,
                        top_k |-> top_k,
                        recent_query |-> recent_query,
                        result |-> _determine_top_k(use_case, question, top_k,
                                                    recent_query, call.DEFAULT_TOP_K)]
    /\ UNCHANGED <<memory, crf_engine, session, req>>

\* the function has returned; the configuration stays
TopKReturn ==
    /\ call.fn = "_determine_top_k"
    /\ call' = [fn |-> "config", DEFAULT_TOP_K |-> call.DEFAULT_TOP_K]
    /\ UNCHANGED <<memory, crf_engine, session, req>>

NextTopK ==
    \/ DetermineTopK
    \/ TopKReturn

SpecTopK == InitTopK /\ [][NextTopK]_vars

(***************************************************************************)
(* SpecLookup: query() of the redmine engine on a collection, with the     *)
(* model-keyword cache and C.KEYWORD_SEARCH_CONFIG['limit_per_keyword'] of *)
(* the engine.  The pipeline is followed on the direct-lookup path; a      *)
(* question answered by an earlier branch or by the vector search is       *)
(* recorded with its path only.                                            *)
(***************************************************************************)
InitLookup ==
    /\ conversation_collection = NoConversations
    /\ turns = <<>>
    /\ crf_engine = NoneV
    /\ session = [user_name |-> NoneV, last_engine |-> NoneV]
    /\ req = Idle
    /\ call \in {[fn |-> "collection", collection |-> c, cache |-> k,
                   limit_per_keyword |-> l] :
                      c \in Collections, k \in SUBSET ModelKeywords, l \in 1..MaxDocs}

NoAnswer == [sources |-> <<>>, document_count |-> 0]

QueryResult(question, path, mentioned_issues, answer) ==
    [fn |-> "query", collection |-> call.collection, cache |-> call.cache,
     limit_per_keyword |-> call.limit_per_keyword, question |-> question,
     path |-> path, mentioned_issues |-> mentioned_issues,
     sources |-> answer.sources, document_count |-> answer.document_count]

\* rag_engine.py:69-138 for use_case "redmine"
RedmineQuery ==
    /\ call.fn = "collection"
    /\ \E question \in LookupQuestions \ {<<>>} :
           LET handler == Dispatch("redmine", question)
               direct == _perform_direct_lookup("redmine", question, call.collection)
           IN  IF handler # "search"
                   THEN call' = QueryResult(question, handler, {}, NoAnswer)
               ELSE IF direct.documents = <<>>
                   THEN call' = QueryResult(question, "vector", {}, NoAnswer)
               ELSE \E entries \in _post_process_documents(
                                       _search_documents(direct, MaxTopK, <<>>).entries,
                                       question,
                                       call.collection, call.cache,
                                       call.limit_per_keyword) :
                       \/ call' = QueryResult(question, "raised", {}, NoAnswer)
                       \/ \E mentioned_issues \in SUBSET IssueIds :
                              call' = QueryResult(question, "direct", mentioned_issues,
                                                  _generate_answer(entries, mentioned_issues))
    /\ UNCHANGED <<memory, crf_engine, session, req>>

\* query() has returned or raised; the engine and its collection stay
QueryReturn ==
    /\ call.fn = "query"
    /\ call' = [fn |-> "collection", collection |-> call.collection,
                cache |-> call.cache, limit_per_keyword |-> call.limit_per_keyword]
    /\ UNCHANGED <<memory, crf_engine, session, req>>

NextLookup ==
    \/ RedmineQuery
    \/ QueryReturn

SpecLookup == InitLookup /\ [][NextLookup]_vars

(***************************************************************************)
(* Properties of the /chat handler, checked under Spec.                    *)
(***************************************************************************)
InFlight == req.pc \in {"routed", "answered", "done", "failed"}
Answered == req.pc \in {"answered", "done"}

\* every index call of the request so far: routing, query() and the save
AllIndexCalls ==
    req.index_calls \cup req.query_calls
        \cup (IF req.saved THEN {"conversation.upsert"} ELSE {})

\* C1: a question from which _extract_issue_ids extracts an identifier is
\* routed to the redmine engine, whatever the distances, last_engine, CRF
\* keywords in the question and the availability of the CRF engine.
C1_IssueIdRoutesToRedmine ==
    (InFlight /\ _extract_issue_ids(req.question) # {})
        => req.engine_name = "redmine"

C1_Witness ==
    /\ req.pc = "routed"
    /\ _extract_issue_ids(req.question) # {}
    /\ is_crf_data_query(req.question)
    /\ req.last_engine = "crf"
    /\ crf_engine = "crf"
    /\ req.engine_name = "redmine"

\* C2 (as stated): while a general-conversation question is handled, from the
\* arrival of the request to the return of the answer, no index call occurs.
C2_NoIndexCallForGeneral ==
    (InFlight /\ _is_general_conversation(req.question)) => AllIndexCalls = {}

\* C2 (amended): for a general-conversation question query() runs the general
\* handler and makes no index call; the index calls of the request are those
\* of the router's similarity comparison, made only on the comparison branch,
\* and the upsert of save_conversation.
C2_GeneralQueryMakesNoIndexCall ==
    (Answered /\ _is_general_conversation(req.question))
        => /\ req.handler = "general"
           /\ req.query_calls = {}
           /\ req.looked_up = {}
           /\ req.index_calls \subseteq {"crf.query", "redmine.query"}
           /\ (req.index_calls # {} => req.compared)

C2_Witness ==
    /\ req.pc = "done"
    /\ _is_general_conversation(req.question)
    /\ req.handler = "general"
    /\ req.index_calls = {"crf.query", "redmine.query"}
    /\ req.saved
    /\ req.query_calls = {}

\* C3: no domain-A and no domain-B keyword, last_engine set, a follow-up
\* pattern and the CRF engine present: the engine named by last_engine is
\* selected and compare_collection_similarity is called on neither engine.
C3_FollowupKeepsLastEngine ==
    (/\ InFlight
     /\ ~is_redmine_query(req.question)
     /\ ~is_crf_data_query(req.question)
     /\ req.last_engine # NoneV
     /\ is_followup(req.question)
     /\ crf_engine # NoneV)
        => /\ req.engine_name = req.last_engine
           /\ ~req.compared
           /\ req.index_calls = {}
           /\ (req.pc = "routed" =>
                  req.crf_distance = NoDistance /\ req.redmine_distance = NoDistance)

C3_Witness ==
    /\ req.pc = "routed"
    /\ req.question = <<"chai">>
    /\ req.last_engine = "crf"
    /\ crf_engine = "crf"
    /\ req.engine_name = "crf"
    /\ ~req.compared

\* the precondition of the comparison branch, in the words of the claim
AmbiguousQuestion ==
    /\ req.pc = "routed"
    /\ ~is_redmine_query(req.question)
    /\ ~is_crf_data_query(req.question)
    /\ ~(req.last_engine # NoneV /\ is_followup(req.question))
    /\ crf_engine # NoneV

PreviousOrRedmine == IF req.last_engine = NoneV THEN "redmine" ELSE req.last_engine

Failed(d) == d = Inf

SmallerDistanceEngine ==
    IF req.crf_distance < req.redmine_distance THEN "crf" ELSE "redmine"

\* C4 (as stated): distances that differ by more than the threshold select the
\* engine with the smaller one; otherwise, and whenever one or both of the
\* computations failed, the previous engine is selected, or redmine.
C4_DistanceOrPrevious ==
    AmbiguousQuestion
        => /\ req.compared
           /\ LET c == req.crf_distance
                  r == req.redmine_distance
                  apart == IF c > r THEN c - r ELSE r - c
              IN  req.engine_name =
                      IF ~Failed(c) /\ ~Failed(r) /\ apart > ROUTING_SIMILARITY_THRESHOLD
                      THEN SmallerDistanceEngine
                      ELSE PreviousOrRedmine

\* C4 (amended): distances that differ by more than the threshold, or exactly
\* one failed computation (whose infinite distance is the larger one), select
\* the engine with the smaller distance; two finite distances within the
\* threshold, or two failed computations, select the previous engine, or
\* redmine when there is none.
C4_DistanceFailureOrPrevious ==
    AmbiguousQuestion
        => /\ req.compared
           /\ LET c == req.crf_distance
                  r == req.redmine_distance
                  apart == IF c > r THEN c - r ELSE r - c
              IN  req.engine_name =
                      IF Failed(c) /\ Failed(r) THEN PreviousOrRedmine
                      ELSE IF Failed(c) THEN "redmine"
                      ELSE IF Failed(r) THEN "crf"
                      ELSE IF apart > ROUTING_SIMILARITY_THRESHOLD
                          THEN SmallerDistanceEngine
                      ELSE PreviousOrRedmine

C4_Witness ==
    /\ AmbiguousQuestion
    /\ req.last_engine = "crf"
    /\ Failed(req.crf_distance)
    /\ req.redmine_distance = MaxDist
    /\ req.engine_name = "redmine"

\* C5: without the CRF engine every request is routed to redmine, whatever the
\* question and last_engine, and no similarity comparison is made.
C5_NoCrfEngineRoutesToRedmine ==
    (InFlight /\ crf_engine = NoneV)
        => /\ req.engine_name = "redmine"
           /\ ~req.compared
           /\ req.index_calls = {}

C5_Witness ==
    /\ req.pc = "routed"
    /\ crf_engine = NoneV
    /\ req.last_engine = "crf"
    /\ is_followup(req.question)
    /\ is_crf_data_query(req.question)
    /\ req.engine_name = "redmine"

\* the identifiers of the answering engine's own domain that the question names
OwnIdentifiers ==
    IF req.engine_name = "crf" THEN _extract_crf_record_ids(req.question)
    ELSE _extract_issue_ids(req.question)

\* the classifier tags of section 4.1, highest precedence first
TagOrder == <<"general", "history", "metadata", "statistics">>

HasTag(q, tag) ==
    CASE tag = "general"    -> _is_general_conversation(q)
      [] tag = "history"    -> _is_conversation_history_query(q)
      [] tag = "metadata"   -> _is_metadata_query(q)
      [] tag = "statistics" -> /\ MatchesStatisticsPattern(q)
                               /\ ~_is_metadata_query(q)
                               /\ ~_is_sample_query(q)
      [] OTHER              -> FALSE

\* the first tag of order that the question has, "search" when it has none
FirstTag(q, order) ==
    IF \E i \in 1..Len(order) : HasTag(q, order[i])
    THEN order[CHOOSE i \in 1..Len(order) :
                   /\ HasTag(q, order[i])
                   /\ \A j \in 1..(i - 1) : ~HasTag(q, order[j])]
    ELSE "search"

\* C6 (as stated): in each engine the handler that runs is that of the highest
\* matching tag in the order general, history, metadata, statistics, and the
\* direct lookup is attempted only when none matches.
C6_PrecedenceInEveryEngine ==
    Answered
        => /\ req.handler = FirstTag(req.question, TagOrder)
           /\ (req.looked_up # {} => req.handler = "search")

\* C6 (amended): the metadata and statistics tags are dispatched only by the
\* CRF engine.  In the CRF engine the order is general, history, metadata,
\* statistics; in the redmine engine it is general, history; the direct
\* lookup is attempted only when none of the engine's tags matches.
C6_PrecedencePerEngine ==
    Answered
        => /\ req.handler =
                  FirstTag(req.question,
                           IF req.engine_name = "crf" THEN TagOrder
                           ELSE SubSeq(TagOrder, 1, 2))
           /\ (req.looked_up # {} => req.handler = "search")
           /\ (req.handler = "search" => req.looked_up = OwnIdentifiers)

C6_Witness ==
    /\ req.pc = "answered"
    /\ req.engine_name = "crf"
    /\ req.question = <<"summary", "field">>
    /\ req.handler = "metadata"

\* C7 (as stated): an explicit identifier in the question always causes a
\* direct lookup by that identifier and assigns the question to the
\* identifier's own domain.
C7_IdentifierForcesLookupAndDomain ==
    Answered
        => /\ (_extract_issue_ids(req.question) # {}
                  => /\ req.engine_name = "redmine"
                     /\ req.looked_up = _extract_issue_ids(req.question))
           /\ (_extract_crf_record_ids(req.question) # {}
                  => /\ req.engine_name = "crf"
                     /\ req.looked_up = _extract_crf_record_ids(req.question))

\* C7 (amended): an issue tag always assigns the question to redmine; a record
\* code assigns it to crf when the question has no redmine identifier or
\* keyword and the CRF engine is available; the direct lookup by the
\* identifiers of the answering engine's domain is performed exactly when no
\* higher-precedence handler (general, history, metadata, statistics) answers.
C7_IdentifierDomainAndLookup ==
    Answered
        => /\ (_extract_issue_ids(req.question) # {} => req.engine_name = "redmine")
           /\ ((/\ _extract_crf_record_ids(req.question) # {}
                /\ ~is_redmine_query(req.question)
                /\ crf_engine # NoneV) => req.engine_name = "crf")
           /\ (req.handler = "search" => req.looked_up = OwnIdentifiers)
           /\ (req.handler # "search" => req.looked_up = {})

C7_Witness ==
    /\ req.pc = "answered"
    /\ req.question = <<"BC_01_001">>
    /\ req.engine_name = "crf"
    /\ req.handler = "search"
    /\ req.looked_up = {"BC_01_001"}
    /\ req.found = 1

\* C8: a question matching a statistics pattern and a sample pattern, or a
\* statistics pattern and a metadata pattern, is not a statistics query, and
\* the CRF engine does not take the statistics branch for it.
C8_SampleAndMetadataAreNotStatistics ==
    (/\ InFlight
     /\ MatchesStatisticsPattern(req.question)
     /\ (_is_sample_query(req.question) \/ _is_metadata_query(req.question)))
        => /\ ~_is_statistics_query(req.question)
           /\ (Answered => req.handler # "statistics")

C8_Witness ==
    /\ req.pc = "answered"
    /\ req.engine_name = "crf"
    /\ req.question = <<"summary", "case">>
    /\ req.handler = "search"

(***************************************************************************)
(* Properties of _determine_top_k, checked under SpecTopK.                 *)
(***************************************************************************)
\* the value the floor is applied to: the caller's, or the computed default
TopKBeforeFloor ==
    IF call.top_k # <<>> THEN call.top_k[1]
    ELSE AutoTopK(call.use_case, call.question, call.DEFAULT_TOP_K)

\* C9: for a recent query the returned top_k is at least DEFAULT_TOP_K
\* ['recent'] and equals it whenever the caller's or the computed value was
\* below it, on the explicit and on the automatic path; for a question that is
\* not a recent query an explicit value is returned unchanged.
C9_RecentFloor ==
    call.fn = "_determine_top_k"
        => LET floor == call.DEFAULT_TOP_K["recent"]
           IN  /\ (_is_recent_query(call.question)
                      => /\ call.result >= floor
                         /\ (TopKBeforeFloor < floor => call.result = floor))
               /\ ((~_is_recent_query(call.question) /\ call.top_k # <<>>)
                      => call.result = call.top_k[1])

C9_Witness ==
    /\ call.fn = "_determine_top_k"
    /\ call.question = <<"recent">>
    /\ call.top_k = <<1>>
    /\ call.DEFAULT_TOP_K["recent"] = MaxTopK
    /\ call.result = MaxTopK

(***************************************************************************)
(* Properties of query() on the direct-lookup path, checked under          *)
(* SpecLookup.                                                             *)
(***************************************************************************)
\* the documents of the collection that belong to the issues the question names
MatchedDocuments ==
    SelectSeq(call.collection.docs,
              LAMBDA d : d.issue_id \in _extract_issue_ids(call.question))

\* the case of the claim: query() returned for a question that names one issue
\* with a document in the collection and that no earlier branch answers
OneIssueLookedUp ==
    /\ call.fn = "query"
    /\ call.path # "raised"
    /\ Cardinality(_extract_issue_ids(call.question)) = 1
    /\ MatchedDocuments # <<>>
    /\ ~_is_general_conversation(call.question)
    /\ ~_is_conversation_history_query(call.question)

SourceIssues == {call.sources[i].issue_id : i \in 1..Len(call.sources)}

ZeroDistances == \A i \in 1..Len(call.sources) : call.sources[i].distance = 0

\* the keyword step of post-processing leaves the matched documents as they
\* are: the question holds no cached model keyword, or every matched document
\* contains one, or no matched document and no body in the collection does
KeywordStepKeeps ==
    \/ {call.question[i] : i \in 1..Len(call.question)} \cap call.cache = {}
    \/ \A i \in 1..Len(MatchedDocuments) : MatchedDocuments[i].kw # "none"
    \/ /\ \A i \in 1..Len(MatchedDocuments) : MatchedDocuments[i].kw = "none"
       /\ \A i \in 1..Len(call.collection.docs) : call.collection.docs[i].kw # "body"

\* C10 (as stated): for a question naming one issue whose document exists,
\* document_count is the number of matched documents, every source has
\* distance 0.0 and the sources are exactly the looked-up issue, whatever the
\* answer text.
C10_LookupDeterminesSources ==
    OneIssueLookedUp
        => /\ call.path = "direct"
           /\ call.document_count = Len(MatchedDocuments)
           /\ ZeroDistances
           /\ SourceIssues = _extract_issue_ids(call.question)

\* C10 (amended): when the keyword step of post-processing keeps the matched
\* documents, document_count is their number, every source has distance 0.0
\* and is the looked-up issue, and the source list holds the looked-up issue
\* exactly when the answer mentions no issue number or mentions that issue; it
\* is empty when the answer mentions only other issues.
C10_LookupSourcesFollowMentions ==
    (OneIssueLookedUp /\ KeywordStepKeeps)
        => /\ call.path = "direct"
           /\ call.document_count = Len(MatchedDocuments)
           /\ ZeroDistances
           /\ SourceIssues \subseteq _extract_issue_ids(call.question)
           /\ (SourceIssues # {} <=>
                  \/ call.mentioned_issues = {}
                  \/ call.mentioned_issues \cap _extract_issue_ids(call.question) # {})

C10_Witness ==
    /\ OneIssueLookedUp
    /\ call.question = <<"#0123", "resnet">>
    /\ call.cache = {"resnet"}
    /\ call.collection.int_ids
    /\ Len(MatchedDocuments) = MaxDocs
    /\ KeywordStepKeeps
    /\ call.mentioned_issues = {123, 456}
    /\ call.document_count = MaxDocs
    /\ SourceIssues = {123}

(***************************************************************************)
(* Conversation memory: save_conversation and search_conversation_history. *)
(* The embedding service is a collaborator whose geometry the code does    *)
(* not control: a search draws the distance of every stored text from the  *)
(* embedding of the question that is searched, equal texts at equal        *)
(* distances.  A store keeps the turns in the order they were saved.       *)
(***************************************************************************)
MaxStored == 2

MemoryQuestions == {"q1", "q2"}

Answers == {"a1", "a2"}

\* rag_utils.py:448-455: the metadata stored with one turn
StoredTurn(session_id, turn_index, question, answer) ==
    [session_id |-> session_id, turn_index |-> turn_index,
     question |-> question, answer |-> answer]

\* save_conversation with the try/except removed: a failed embedding call or
\* upsert reaches the caller
save_conversation_Raising(collection, session_id, turn_index, question, answer, ok) ==
    IF ~collection.present
    THEN [collection |-> collection, raised |-> FALSE]
    ELSE IF ~ok
         THEN [collection |-> collection, raised |-> TRUE]
         ELSE [collection |-> [collection EXCEPT
                                  !.docs = Append(@, StoredTurn(session_id, turn_index,
                                                                question, answer))],
               raised |-> FALSE]

\* rag_utils.py:432-462: the store after save_conversation, and whether an
\* exception left the function; ok is FALSE when the embedding call or the
\* upsert raises, which the function only logs
save_conversation(collection, session_id, turn_index, question, answer, ok) ==
    IF ~collection.present
    THEN [collection |-> collection, raised |-> FALSE]
    ELSE IF ~ok
         THEN [collection |-> collection, raised |-> FALSE]
         ELSE [collection |-> [collection EXCEPT
                                  !.docs = Append(@, StoredTurn(session_id, turn_index,
                                                                question, answer))],
               raised |-> FALSE]

\* rag_utils.py:441-442: the text that is embedded for a stored turn
conversation_text(doc) == <<doc.question, doc.answer>>

\* the distances an embedding can put between the stored texts and a query
Distances == [MemoryQuestions \X Answers -> 0..MaxDist]

\* rag_utils.py:479-483: the stored turns that the where-filter lets through
SessionDocs(collection, session_id) ==
    {i \in 1..Len(collection.docs) : collection.docs[i].session_id = session_id}

\* rag_utils.py:479-483: the orders in which the index can return the turns
\* of S, nearest first; turns at equal distances come in any order
Rankings(collection, S, distance) ==
    {r \in [1..Cardinality(S) -> S] :
        /\ \A i, j \in 1..Cardinality(S) : i # j => r[i] # r[j]
        /\ \A i, j \in 1..Cardinality(S) :
              i < j => distance[conversation_text(collection.docs[r[i]])]
                         <= distance[conversation_text(collection.docs[r[j]])]}

\* rag_utils.py:489-496: one entry of the returned history
Hit(doc, distance) ==
    [question |-> doc.question, answer |-> doc.answer,
     turn_index |-> doc.turn_index,
     relevance_score |-> 1 - distance[conversation_text(doc)]]

\* rag_utils.py:464-503: the histories search_conversation_history can return;
\* the empty one also stands for an exception, which the function absorbs
search_conversation_history(collection, session_id, top_k, distance) ==
    IF ~collection.present
    THEN {<<>>}
    ELSE IF Len(collection.docs) = 0
         THEN {<<>>}
         ELSE LET S == SessionDocs(collection, session_id)
              IN  {<<>>} \cup
                  {[i \in 1..Min(top_k, Cardinality(S)) |->
                        Hit(collection.docs[r[i]], distance)] :
                     r \in Rankings(collection, S, distance)}

InitMemory ==
    /\ conversation_collection \in {[present |-> p, docs |-> <<>>] : p \in BOOLEAN}
    /\ turns = <<>>
    /\ crf_engine = NoneV
    /\ session = [user_name |-> NoneV, last_engine |-> NoneV]
    /\ req = Idle
    /\ call = NoCall

\* one call of save_conversation; turns are numbered in the order of saving
SaveConversation ==
    /\ call.fn = NoneV
    /\ Len(conversation_collection.docs) < MaxStored
    /\ \E session_id \in Users, question \in MemoryQuestions,
          answer \in Answers, ok \in BOOLEAN :
          LET turn_index == Len(conversation_collection.docs)
          IN  /\ conversation_collection' =
                     save_conversation(conversation_collection, session_id,
                                       turn_index, question, answer, ok).collection
              /\ call' = [fn |-> "save_conversation", session_id |-> session_id,
                          turn_index |-> turn_index, question |-> question,
                          answer |-> answer,
                          stored |-> conversation_collection' # conversation_collection]
    /\ UNCHANGED <<crf_engine, session, req, turns>>

\* one call of search_conversation_history, possibly right after a save
SearchConversationHistory ==
    /\ call.fn \in {NoneV, "save_conversation"}
    /\ \E session_id \in Users, current_question \in MemoryQuestions,
          top_k \in 1..MaxStored, distance \in Distances :
          \E history \in search_conversation_history(conversation_collection,
                                                     session_id, top_k, distance) :
             call' = [fn |-> "search_conversation_history",
                      session_id |-> session_id,
                      current_question |-> current_question,
                      history |-> history,
                      after_save |-> /\ call.fn = "save_conversation"
                                     /\ call.stored
                                     /\ call.session_id = session_id
                                     /\ call.question = current_question,
                      saved |-> IF call.fn = "save_conversation"
                                THEN StoredTurn(call.session_id, call.turn_index,
                                                call.question, call.answer)
                                ELSE StoredTurn("", 0, "", "")]
    /\ UNCHANGED <<crf_engine, session, req, memory>>

MemoryReturn ==
    /\ call.fn \in {"save_conversation", "search_conversation_history"}
    /\ call' = NoCall
    /\ UNCHANGED <<crf_engine, session, req, memory>>

NextMemory ==
    \/ SaveConversation
    \/ SearchConversationHistory
    \/ MemoryReturn

SpecMemory == InitMemory /\ [][NextMemory]_vars

(***************************************************************************)
(* C11: after save_conversation(session, i, q, a) has stored the turn, an  *)
(* immediate search_conversation_history(session, q) returns the turn      *)
(* (q, a, i) as its first result, at distance 0 (relevance_score 1),       *)
(* whatever other turns the session already holds.                         *)
(***************************************************************************)
C11_RoundTrip ==
    (call.fn = "search_conversation_history" /\ call.after_save) =>
        /\ Len(call.history) >= 1
        /\ call.history[1].question = call.saved.question
        /\ call.history[1].answer = call.saved.answer
        /\ call.history[1].turn_index = call.saved.turn_index
        /\ call.history[1].relevance_score = 1

(***************************************************************************)
(* SpecSession: the /chat and /reset handlers with the whole session       *)
(* state and the conversation store, one request at a time.  A turn (its   *)
(* question and generated answer) is represented by its serial number, the *)
(* position of the turn in turns.  max_turns_in_memory comes from          *)
(* config/constants.py and is drawn from 1..MaxInMemory.                   *)
(***************************************************************************)
MaxTurns == 3

MaxInMemory == 2

\* an empty question, an issue number, a record identifier, a follow-up
\* word and a question without any routing keyword
SessionQuestions == {<<>>, <<"#123">>, <<"BC_01_001">>, <<"chai">>, <<"nalssi">>}

\* app.py:91: the prefix followed by the user name
SessionId(user_name) == <<"SESSION_ID_PREFIX", user_name>>

\* the session of a client without a cookie, as session.get reads it
NoSession ==
    [session_id |-> <<>>, user_name |-> NoneV, chat_history |-> <<>>,
     turn_index |-> 0, last_engine |-> NoneV]

\* app.py:93-101: the session is started afresh when the user name changed
SessionSetUp(sess, user_name) ==
    IF sess.user_name # user_name
    THEN [session_id |-> SessionId(user_name), user_name |-> user_name,
          chat_history |-> <<>>, turn_index |-> 0, last_engine |-> NoneV]
    ELSE sess

\* app.py:109-173: the engines the routing can choose
RoutedEngines(question, last_engine, crf) ==
    LET fast == RouteByKeyword(question, last_engine, crf)
    IN  IF fast.route # "compare"
        THEN {fast.engine_name}
        ELSE {RouteByDistance(last_engine, crf_result.distance,
                              redmine_result.distance).engine_name :
                 crf_result \in compare_collection_similarity,
                 redmine_result \in compare_collection_similarity}

\* a slice that keeps the oldest k turns instead of the newest
LastTurns_KeepsOldest(chat_history, k) ==
    IF k = 0 \/ Len(chat_history) <= k
    THEN chat_history
    ELSE SubSeq(chat_history, 1, k)

\* app.py:190: the Python slice chat_history[-k:]; for k = 0 it is the whole list
LastTurns(chat_history, k) ==
    IF k = 0 \/ Len(chat_history) <= k
    THEN chat_history
    ELSE SubSeq(chat_history, Len(chat_history) - k + 1, Len(chat_history))

\* app.py:189-193: the session after a successful turn, written from the
\* values the handler read at app.py:103-105
SessionAfterTurn(sess, chat_history, turn_index, turn, engine_name, k) ==
    [sess EXCEPT !.chat_history = LastTurns(Append(chat_history, turn), k),
                 !.turn_index = turn_index + 1,
                 !.last_engine = engine_name]

\* a /reset that starts the session afresh
SessionAfterReset_NewSession(sess) ==
    [sess EXCEPT !.chat_history = <<>>, !.turn_index = 0, !.last_engine = NoneV]

\* app.py:205: /reset pops chat_history and nothing else
SessionAfterReset(sess) == [sess EXCEPT !.chat_history = <<>>]

\* the request without a question or without a user name, which leaves the
\* validation
Rejected_QuestionOnly(question, user_name) == question = <<>>

\* app.py:84-87: the request is rejected
Rejected(question, user_name) == question = <<>> \/ user_name = ""

\* app.py:152-153: the routing compares the two collections
RoutingCalls(question, last_engine, crf) ==
    IF RouteByKeyword(question, last_engine, crf).route = "compare"
    THEN {"compare_collection_similarity"}
    ELSE {}

SessionIdle == [pc |-> "idle"]

InitSession ==
    /\ crf_engine \in {NoneV, "crf"}
    /\ session = NoSession
    /\ req = SessionIdle
    /\ call \in {[fn |-> "config", max_turns_in_memory |-> k] : k \in 1..MaxInMemory}
    /\ conversation_collection \in {[present |-> p, docs |-> <<>>] : p \in BOOLEAN}
    /\ turns = <<>>

\* app.py:79-173: validation, session set-up, the reads of the session and
\* the routing of one /chat request; before keeps the state the request
\* found, calls the collaborator calls made so far
SessionChatRoute ==
    /\ req.pc = "idle"
    /\ Len(turns) < MaxTurns
    /\ \E question \in SessionQuestions, user_name \in Users \cup {""} :
        LET found == [pc |-> "rejected", question |-> question,
                      user_name |-> user_name,
                      before |-> [session |-> session,
                                  docs |-> conversation_collection.docs],
                      session_id |-> <<>>, chat_history |-> <<>>, turn_index |-> 0,
                      last_engine |-> NoneV, engine_name |-> NoneV,
                      calls |-> {}, save |-> "none"]
        IN  IF Rejected(question, user_name)
            THEN /\ req' = found
                 /\ UNCHANGED session
            ELSE LET sess == SessionSetUp(session, user_name)
                 IN  /\ session' = sess
                     /\ \E engine_name \in RoutedEngines(question, sess.last_engine,
                                                         crf_engine) :
                           req' = [found EXCEPT
                                      !.pc = "routed",
                                      !.session_id = SessionId(user_name),
                                      !.chat_history = sess.chat_history,
                                      !.turn_index = sess.turn_index,
                                      !.last_engine = sess.last_engine,
                                      !.engine_name = engine_name,
                                      !.calls = RoutingCalls(question, sess.last_engine,
                                                             crf_engine)]
    /\ UNCHANGED <<crf_engine, call, memory>>

\* app.py:175-196: query() returned an answer; the turn is saved (best
\* effort), the session is updated and the answer is returned.  save tells
\* whether the turn was stored, was lost, or the save raised.
SessionChatAnswer ==
    /\ req.pc = "routed"
    /\ \E ok \in BOOLEAN :
        LET turn == Len(turns) + 1
            saved == save_conversation(conversation_collection, req.session_id,
                                       req.turn_index, req.question, turn, ok)
            calls == req.calls \cup {"query", "save_conversation"}
        IN  /\ conversation_collection' = saved.collection
            /\ IF saved.raised
               THEN /\ req' = [req EXCEPT !.pc = "failed", !.calls = calls,
                                          !.save = "raised"]
                    /\ UNCHANGED <<session, turns>>
               ELSE /\ session' = SessionAfterTurn(session, req.chat_history,
                                                   req.turn_index, turn,
                                                   req.engine_name,
                                                   call.max_turns_in_memory)
                    /\ turns' = Append(turns, req.user_name)
                    /\ req' = [req EXCEPT
                                  !.pc = "done", !.calls = calls,
                                  !.save = IF saved.collection = conversation_collection
                                           THEN "lost" ELSE "stored"]
    /\ UNCHANGED <<crf_engine, call>>

\* app.py:175-180 and 198-200 with rag_engine.py:136-138: query() raised and
\* the handler answers with the error; the session set-up is not undone
SessionChatFail ==
    /\ req.pc = "routed"
    /\ req' = [req EXCEPT !.pc = "failed", !.calls = @ \cup {"query"}]
    /\ UNCHANGED <<crf_engine, session, call, memory>>

\* the response has been sent (app.py:86, 88, 196, 200)
SessionChatReturn ==
    /\ req.pc \in {"done", "rejected", "failed"}
    /\ req' = SessionIdle
    /\ UNCHANGED <<crf_engine, session, call, memory>>

\* app.py:203-207: /reset
SessionReset ==
    /\ req.pc = "idle"
    /\ session' = SessionAfterReset(session)
    /\ UNCHANGED <<crf_engine, req, call, memory>>

NextSession ==
    \/ SessionChatRoute
    \/ SessionChatAnswer
    \/ SessionChatFail
    \/ SessionChatReturn
    \/ SessionReset

SpecSession == InitSession /\ [][NextSession]_vars

(***************************************************************************)
(* C12: when query() raises while a /chat request is handled, the request  *)
(* ends with an error and the state is the one the request found: the      *)
(* session (session_id, user_name, chat_history, turn_index, last_engine)  *)
(* is unchanged and no turn has been added to the conversation store,      *)
(* whatever the session was before, a session of another user included.    *)
(***************************************************************************)
C12_FailureLeavesStateUnchanged ==
    (req.pc = "failed") =>
        /\ session = req.before.session
        /\ conversation_collection.docs = req.before.docs

(***************************************************************************)
(* C13: when save_conversation fails (the embedding call or the upsert     *)
(* raises, or the conversation collection is absent) no exception reaches  *)
(* chat(): the request still returns the answer and the session is         *)
(* updated, with the turn appended to chat_history, turn_index incremented *)
(* and last_engine set.                                                    *)
(***************************************************************************)
C13_FailedSaveKeepsTurn ==
    (req.pc \in {"done", "failed"} /\ req.save \in {"lost", "raised"}) =>
        /\ req.pc = "done"
        /\ conversation_collection.docs = req.before.docs
        /\ Len(session.chat_history) >= 1
        /\ session.chat_history[Len(session.chat_history)] = Len(turns)
        /\ turns[Len(turns)] = req.user_name
        /\ session.turn_index = req.turn_index + 1
        /\ session.last_engine = req.engine_name

\* a turn answered although the embedding call or the upsert of its save
\* raised, in a session that already held a turn
C13_Witness ==
    /\ req.pc = "done"
    /\ req.save = "lost"
    /\ conversation_collection.present
    /\ session.turn_index = 2
    /\ Len(session.chat_history) = 2

(***************************************************************************)
(* C14: a /chat request with an empty question or an empty user name is    *)
(* rejected before anything else happens: the session is neither created   *)
(* nor modified, no routing or retrieval call is made, and nothing is      *)
(* written to the conversation store.                                      *)
(***************************************************************************)
C14_RejectedWithoutEffect ==
    (req.pc # "idle" /\ (req.question = <<>> \/ req.user_name = "")) =>
        /\ req.pc = "rejected"
        /\ session = req.before.session
        /\ conversation_collection.docs = req.before.docs
        /\ req.engine_name = NoneV
        /\ req.calls = {}

\* a request without a user name, made in a session of alice that holds a turn
C14_Witness ==
    /\ req.pc = "rejected"
    /\ req.question # <<>>
    /\ req.user_name = ""
    /\ session.user_name = "alice"
    /\ Len(session.chat_history) = 1
    /\ Len(conversation_collection.docs) = 1

(***************************************************************************)
(* C18: the chat_history of the session holds at most max_turns_in_memory  *)
(* turns; they are the most recent successful turns of the current user,   *)
(* in order; and when a turn is added to a full history it is the oldest   *)
(* turn that is dropped.                                                   *)
(***************************************************************************)
\* the serial numbers of the successful turns of a user, oldest first
TurnsOf(user_name) ==
    SelectSeq([n \in 1..Len(turns) |-> n], LAMBDA n : turns[n] = user_name)

IsSuffix(short, long) ==
    /\ Len(short) <= Len(long)
    /\ short = SubSeq(long, Len(long) - Len(short) + 1, Len(long))

C18_BoundedRecentHistory ==
    /\ Len(session.chat_history) <= call.max_turns_in_memory
    /\ IsSuffix(session.chat_history, TurnsOf(session.user_name))
    /\ (req.pc = "done" /\ Len(req.chat_history) = call.max_turns_in_memory) =>
           session.chat_history = Append(Tail(req.chat_history), Len(turns))

\* a third turn of alice answered with room for two: turn 1 was dropped
C18_Witness ==
    /\ req.pc = "done"
    /\ call.max_turns_in_memory = 2
    /\ turns = <<"alice", "alice", "alice">>
    /\ req.chat_history = <<1, 2>>
    /\ session.chat_history = <<2, 3>>

(***************************************************************************)
(* C19: the turn counter of a session identifier is monotonic over any     *)
(* sequence of /chat and /reset requests, requests under other user names  *)
(* included: every later turn persisted under a session identifier carries *)
(* a higher turn_index than every earlier one, so no two persisted turns   *)
(* of one session identifier share a turn_index.                           *)
(***************************************************************************)
C19_TurnIndexMonotonic ==
    \A i, j \in 1..Len(conversation_collection.docs) :
        (/\ i < j
         /\ conversation_collection.docs[i].session_id
              = conversation_collection.docs[j].session_id) =>
            conversation_collection.docs[i].turn_index
                < conversation_collection.docs[j].turn_index

\* a /reset request is the only step from idle to idle
ResetStep == req.pc = "idle" /\ req'.pc = "idle"

\* the state a /reset leaves in a session that has answered a turn
AfterReset(sess) ==
    /\ sess.user_name # NoneV
    /\ sess.chat_history = <<>>
    /\ sess.turn_index > 0

\* the next /chat of the same user is routed
RoutedAfterReset ==
    /\ req.pc = "idle"
    /\ req'.pc = "routed"
    /\ AfterReset(session)
    /\ req'.user_name = session.user_name

\* the next /chat of the same user is answered and its turn is stored
StoredAfterReset ==
    /\ req.pc = "routed"
    /\ req'.pc = "done"
    /\ req'.save = "stored"
    /\ AfterReset(req.before.session)
    /\ req.user_name = req.before.session.user_name

(***************************************************************************)
(* C29: /reset removes only the short-term chat_history of the session:    *)
(* session_id, user_name, turn_index and last_engine are unchanged and the *)
(* conversation store is unchanged, so the next /chat of the same user     *)
(* starts with an empty short-term history, is still routed with the       *)
(* previous last_engine, and persists its turn with the turn_index that    *)
(* follows the last one used before the reset.                             *)
(***************************************************************************)
C29_ResetClearsHistoryOnly ==
    [][/\ ResetStep =>
            /\ session'.chat_history = <<>>
            /\ session'.session_id = session.session_id
            /\ session'.user_name = session.user_name
            /\ session'.turn_index = session.turn_index
            /\ session'.last_engine = session.last_engine
            /\ conversation_collection' = conversation_collection
       /\ RoutedAfterReset =>
            /\ session' = session
            /\ req'.chat_history = <<>>
            /\ req'.last_engine = session.last_engine
            /\ req'.turn_index = session.turn_index
            /\ req'.engine_name \in RoutedEngines(req'.question, session.last_engine,
                                                  crf_engine)
       /\ StoredAfterReset =>
            /\ conversation_collection'.docs
                 = Append(conversation_collection.docs,
                          StoredTurn(req.before.session.session_id,
                                     req.before.session.turn_index,
                                     req.question, Len(turns')))
            /\ session'.chat_history = <<Len(turns')>>
            /\ session'.turn_index = req.before.session.turn_index + 1]_vars

\* alice's second turn, asked after a /reset that followed a turn answered
\* by the crf engine: it is stored with turn_index 1
C29_Witness ==
    /\ req.pc = "done"
    /\ req.save = "stored"
    /\ req.user_name = "alice"
    /\ req.before.session.user_name = "alice"
    /\ req.before.session.chat_history = <<>>
    /\ req.before.session.turn_index = 1
    /\ req.before.session.last_engine = "crf"
    /\ req.last_engine = "crf"
    /\ Len(conversation_collection.docs) = 2
    /\ conversation_collection.docs[2].turn_index = 1
    /\ session.chat_history = <<2>>

\* last_engine is written by an answered turn and by the session set-up of
\* a new user name, and by nothing else
C30_WrittenByTurnsAndNameChanges ==
    [][/\ session'.last_engine # session.last_engine =>
            \/ /\ req.pc = "routed"
               /\ req'.pc = "done"
            \/ /\ req.pc = "idle"
               /\ req'.pc = "routed"
               /\ req'.user_name # session.user_name
       /\ (req.pc = "routed" /\ req'.pc = "done") =>
            session'.last_engine = req.engine_name
       /\ (req.pc = "idle" /\ req'.pc = "routed"
             /\ req'.user_name # session.user_name) =>
            /\ session'.last_engine = NoneV
            /\ req'.last_engine = NoneV
            /\ req'.engine_name \in RoutedEngines(req'.question, NoneV, crf_engine)
       /\ (req.pc = "idle" /\ req'.pc = "idle") =>
            session'.last_engine = session.last_engine]_vars

\* a rejected request has left last_engine as the request found it
C30_RejectedRequestKeepsEngine ==
    (req.pc = "rejected") =>
        session.last_engine = req.before.session.last_engine

\* a failed request has left last_engine as the request found it
C30_FailedRequestKeepsEngine ==
    (req.pc = "failed") =>
        session.last_engine = req.before.session.last_engine

\* a failed request of the user of the session has left last_engine as the
\* request found it
C30_FailedRequestOfSameUserKeepsEngine ==
    (req.pc = "failed" /\ req.user_name = req.before.session.user_name) =>
        session.last_engine = req.before.session.last_engine

(***************************************************************************)
(* C30: after any sequence of requests the last_engine of the session is   *)
(* either None (no successful turn yet for the current user name) or the   *)
(* name of the engine that answered the most recent successful /chat       *)
(* request of that user; rejected requests, failed requests and /reset     *)
(* leave it unchanged, and a change of user name resets it to None before  *)
(* routing, so that the engine stickiness of one user never affects the    *)
(* routing of another user.                                                *)
(***************************************************************************)
C30_LastEngineTracksAnsweredTurns ==
    [][/\ session'.last_engine # session.last_engine =>
            \/ /\ req.pc = "routed"
               /\ req'.pc = "done"
            \/ /\ req.pc = "idle"
               /\ req'.pc = "routed"
               /\ req'.user_name # session.user_name
       /\ (req.pc = "routed" /\ req'.pc = "done") =>
            session'.last_engine = req.engine_name
       /\ (req.pc = "idle" /\ req'.pc = "routed"
             /\ req'.user_name # session.user_name) =>
            /\ session'.last_engine = NoneV
            /\ req'.last_engine = NoneV
            /\ req'.engine_name \in RoutedEngines(req'.question, NoneV, crf_engine)
       /\ (req.pc = "idle" /\ req'.pc = "idle") =>
            session'.last_engine = session.last_engine
       /\ (req'.pc \in {"rejected", "failed"}) =>
            session'.last_engine = req'.before.session.last_engine]_vars

(***************************************************************************)
(* SpecErrors: one /chat request in which collaborator calls raise.  The   *)
(* calls of a request are grouped in blocks, one per try block or handler  *)
(* of the code; a call is named by its block and what it does.  A raising  *)
(* call ends its block; the exception is absorbed where the code catches   *)
(* it and goes on, and ends the request with the error response otherwise. *)
(* The environment of a request: history_long (the short-term history      *)
(* reaches search_history_threshold), direct_found (the direct lookup      *)
(* finds documents), found (the vector search finds documents), cached     *)
(* (the model-keyword cache is current), augment (no retrieved document    *)
(* contains the keyword of the question).                                  *)
(***************************************************************************)
MaxRaised == 2

ErrQuestions == [1..1 -> Vocab]

Envs == [history_long : BOOLEAN, direct_found : BOOLEAN, found : BOOLEAN,
         cached : BOOLEAN, augment : BOOLEAN]

\* the collaborator calls of a block, in the order the code makes them
BlockCalls(block) ==
    CASE block \in {"compare_crf", "compare_redmine"} -> <<"embed", "query">>
      [] block = "general"     -> <<"generate">>
      [] block = "history"     -> <<"get">>
      [] block = "metadata"    -> <<"get">>
      [] block = "statistics"  -> <<"get", "generate">>
      [] block = "lookup"      -> <<"get">>
      [] block = "past"        -> <<"count", "embed", "query">>
      [] block = "search"      -> <<"embed", "query">>
      [] block = "cache_count" -> <<"count">>
      [] block = "cache"       -> <<"get">>
      [] block = "augment"     -> <<"get">>
      [] block = "answer"      -> <<"generate">>
      [] block = "save"        -> <<"embed", "upsert">>

\* an error handling in which no exception is absorbed
Absorbed_Nowhere(block) == FALSE

\* the blocks whose exceptions the code catches and survives:
\* rag_engine.py:154-159, rag_utils.py:567-573, 501-503, 268-269, 288-290,
\* 373-375 and 461-462
Absorbed(block) ==
    block \in {"compare_crf", "compare_redmine", "history", "past",
               "cache_count", "cache", "augment", "save"}

Raises(block, raising) ==
    \E i \in 1..Len(BlockCalls(block)) : <<block, BlockCalls(block)[i]>> \in raising

\* the calls of a block that are made: up to the first one that raises
MadeIn(block, raising) ==
    {<<block, BlockCalls(block)[i]>> : i \in
        {i \in 1..Len(BlockCalls(block)) :
            \A j \in 1..(i - 1) : <<block, BlockCalls(block)[j]>> \notin raising}}

\* rag_engine.py:142-159: the distances a comparison can return
CompareDistances(block, raising) ==
    IF Raises(block, raising) THEN {Inf} ELSE (0..MaxDist) \cup {Inf}

\* app.py:148-153: the blocks of the routing
RoutingBlocks(question, last_engine, crf) ==
    IF RouteByKeyword(question, last_engine, crf).route = "compare"
    THEN <<"compare_crf", "compare_redmine">>
    ELSE <<>>

\* app.py:109-173: the engines the routing can choose when the calls of
\* raising raise
EnginesUnderFailure(question, last_engine, crf, raising) ==
    LET fast == RouteByKeyword(question, last_engine, crf)
    IN  IF fast.route # "compare"
        THEN {fast.engine_name}
        ELSE {RouteByDistance(last_engine, crf_distance, redmine_distance).engine_name :
                 crf_distance \in CompareDistances("compare_crf", raising),
                 redmine_distance \in CompareDistances("compare_redmine", raising)}

Optional(condition, block) == IF condition THEN <<block>> ELSE <<>>

\* rag_engine.py:69-134: the blocks of query() in the order they are entered
\* when no propagated exception ends the request earlier
QueryBlocks(use_case, question, env, raising) ==
    LET handler == Dispatch(use_case, question)
        lookup == _perform_direct_lookup(use_case, question,
                                         [int_ids |-> FALSE, docs |-> <<>>]).gets > 0
        direct == lookup /\ env.direct_found
        documents == direct \/ env.found
        keywords == /\ use_case = "redmine"
                    /\ AnyWord(question, ModelKeywords)
                    /\ (env.cached \/ ~Raises("cache", raising))
    IN  IF handler # "search"
        THEN <<handler>>
        ELSE Optional(lookup, "lookup")
                \o Optional(env.history_long, "past")
                \o Optional(~direct, "search")
                \o Optional(documents /\ use_case = "redmine", "cache_count")
                \o Optional(documents /\ use_case = "redmine" /\ ~env.cached, "cache")
                \o Optional(documents /\ keywords /\ env.augment, "augment")
                \o Optional(documents, "answer")

\* app.py:109-187: the blocks of one request; the turn is saved at the end
ChatBlocks(use_case, question, last_engine, crf, env, raising) ==
    RoutingBlocks(question, last_engine, crf)
        \o QueryBlocks(use_case, question, env, raising)
        \o <<"save">>

\* the blocks are entered in order until an exception is propagated
RECURSIVE Run(_, _)
Run(blocks, raising) ==
    IF blocks = <<>>
    THEN [made |-> {}, outcome |-> "answer"]
    ELSE LET block == Head(blocks)
         IN  IF Raises(block, raising) /\ ~Absorbed(block)
             THEN [made |-> MadeIn(block, raising), outcome |-> "error"]
             ELSE LET rest == Run(Tail(blocks), raising)
                  IN  [made |-> MadeIn(block, raising) \cup rest.made,
                       outcome |-> rest.outcome]

\* the calls a request can make
Sites(blocks) ==
    UNION {{<<blocks[b], BlockCalls(blocks[b])[i]>> :
               i \in 1..Len(BlockCalls(blocks[b]))} : b \in 1..Len(blocks)}

\* the sets of at most n calls of S
RECURSIVE AtMost(_, _)
AtMost(S, n) ==
    IF n = 0
    THEN {{}}
    ELSE LET smaller == AtMost(S, n - 1)
         IN  smaller \cup {T \cup {x} : T \in smaller, x \in S}

InitErrors ==
    /\ crf_engine \in {NoneV, "crf"}
    /\ session = [user_name |-> NoneV, last_engine |-> NoneV]
    /\ req = Idle
    /\ call = NoCall
    /\ conversation_collection = NoConversations
    /\ turns = <<>>

\* one /chat request with a question and a user name, some of whose
\* collaborator calls raise
ChatWithFailures ==
    /\ call.fn = NoneV
    /\ \E question \in ErrQuestions, last_engine \in {NoneV, "redmine", "crf"},
          env \in Envs :
        LET candidates ==
                Sites(ChatBlocks("redmine", question, last_engine, crf_engine, env, {}))
                  \cup Sites(ChatBlocks("crf", question, last_engine, crf_engine, env, {}))
        IN  \E raising \in AtMost(candidates, MaxRaised) :
              \E engine_name \in EnginesUnderFailure(question, last_engine,
                                                     crf_engine, raising) :
                LET result == Run(ChatBlocks(engine_name, question, last_engine,
                                             crf_engine, env, raising), raising)
                IN  call' = [fn |-> "chat", question |-> question,
                             engine_name |-> engine_name,
                             handler |-> Dispatch(engine_name, question),
                             made |-> result.made,
                             raised |-> result.made \cap raising,
                             outcome |-> result.outcome]
    /\ UNCHANGED <<crf_engine, session, req, memory>>

ErrorsReturn ==
    /\ call.fn = "chat"
    /\ call' = NoCall
    /\ UNCHANGED <<crf_engine, session, req, memory>>

\* app.py:49-71: the service is started with or without the CRF engine
ErrorsRestart ==
    /\ call.fn = NoneV
    /\ crf_engine' \in {NoneV, "crf"}
    /\ UNCHANGED <<session, req, call, memory>>

NextErrors ==
    \/ ChatWithFailures
    \/ ErrorsReturn
    \/ ErrorsRestart

SpecErrors == InitErrors /\ [][NextErrors]_vars

MainPipeline ==
    {<<"general", "generate">>, <<"metadata", "get">>, <<"statistics", "get">>,
     <<"statistics", "generate">>, <<"lookup", "get">>, <<"search", "embed">>,
     <<"search", "query">>, <<"answer", "generate">>}

MaxBatch == 2

StatDocs == [record_id : RecordIds \cup {""}, age : {0, 50}, er : {"", "pos", "neg"}]

Batches == SeqsUpTo(StatDocs, MaxBatch)

\* the empty dict {} of an aggregate without data
EmptyDict == <<>>

\* the record identifiers counted once per document instead of once per value
unique_records_PerDocument(batch) ==
    {<<i, batch[i].record_id>> : i \in {i \in 1..Len(batch) : batch[i].record_id # ""}}

\* crf_statistics.py:120-124: the set of the record identifiers of the batch
unique_records(batch) ==
    {batch[i].record_id : i \in {i \in 1..Len(batch) : batch[i].record_id # ""}}

RECURSIVE Sum(_)
Sum(values) == IF values = <<>> THEN 0 ELSE Head(values) + Sum(Tail(values))

\* crf_statistics.py:401-408: the age aggregate, present when an age was read
age_stats(batch) ==
    LET ages == SelectSeq([i \in 1..Len(batch) |-> batch[i].age], LAMBDA a : a # 0)
    IN  IF ages # <<>>
        THEN [mean |-> Sum(ages) \div Len(ages), count |-> Len(ages)]
        ELSE EmptyDict

\* crf_statistics.py:419-425: the ER aggregate, present when a status was read
er_stats(batch) ==
    LET er_total == Cardinality({i \in 1..Len(batch) : batch[i].er # ""})
        er_positive == Cardinality({i \in 1..Len(batch) : batch[i].er = "pos"})
    IN  IF er_total > 0
        THEN [positive |-> er_positive, total |-> er_total,
              percentage |-> (er_positive * 100) \div er_total]
        ELSE EmptyDict

\* crf_statistics.py:13-636
calculate_crf_statistics(batch) ==
    [total_patients |-> Cardinality(unique_records(batch)),
     total_documents |-> Len(batch),
     age_stats |-> age_stats(batch),
     er_stats |-> er_stats(batch)]

\* crf_statistics.py:793-: the sections of the text, the header always
format_statistics_for_llm(stats) ==
    <<"header">>
        \o (IF stats.age_stats # EmptyDict THEN <<"age_stats">> ELSE <<>>)
        \o (IF stats.er_stats # EmptyDict THEN <<"er_stats">> ELSE <<>>)

\* rag_engine_helpers.py:99-230: the handler makes one generation call for
\* the one chunk of a short text, whatever the number of documents; the
\* generation returns text, returns no text, or raises
_handle_crf_statistics_query(batch, generation) ==
    LET stats == calculate_crf_statistics(batch)
        stats_text == format_statistics_for_llm(stats)
    IN  IF generation = "raises"
        THEN [raised |-> TRUE, answer |-> NoneV, document_count |-> 0,
              generation_calls |-> 1]
        ELSE [raised |-> FALSE,
              answer |-> IF generation = "text" THEN "generated" ELSE "fallback",
              document_count |-> Len(batch),
              generation_calls |-> 1]

InitStats ==
    /\ crf_engine = "crf"
    /\ session = [user_name |-> NoneV, last_engine |-> NoneV]
    /\ req = Idle
    /\ call = NoCall
    /\ conversation_collection = NoConversations
    /\ turns = <<>>

\* one statistics query: the index get() returns the batch
StatisticsQuery ==
    /\ call.fn = NoneV
    /\ \E batch \in Batches, generation \in {"text", "no_text", "raises"} :
          call' = [fn |-> "statistics", batch |-> batch,
                   stats |-> calculate_crf_statistics(batch),
                   stats_text |-> format_statistics_for_llm(
                                      calculate_crf_statistics(batch)),
                   result |-> _handle_crf_statistics_query(batch, generation)]
    /\ UNCHANGED <<crf_engine, session, req, memory>>

StatisticsReturn ==
    /\ call.fn = "statistics"
    /\ call' = NoCall
    /\ UNCHANGED <<crf_engine, session, req, memory>>

NextStats ==
    \/ StatisticsQuery
    \/ StatisticsReturn

SpecStats == InitStats /\ [][NextStats]_vars

(***************************************************************************)
(* C16: total_patients, the number of distinct record identifiers, is at   *)
(* most total_documents, and the two are equal exactly when every document *)
(* carries a record identifier and these identifiers are pairwise          *)
(* distinct.                                                               *)
(***************************************************************************)
C16_PatientsAtMostDocuments ==
    (call.fn = "statistics") =>
        /\ call.stats.total_patients <= call.stats.total_documents
        /\ (call.stats.total_patients = call.stats.total_documents)
              <=> (/\ \A i \in 1..Len(call.batch) : call.batch[i].record_id # ""
                   /\ \A i, j \in 1..Len(call.batch) :
                         i # j => call.batch[i].record_id # call.batch[j].record_id)

\* two documents of one record: one patient, two documents
C16_Witness ==
    /\ call.fn = "statistics"
    /\ Len(call.batch) = 2
    /\ call.batch[1].record_id = "BC_01_001"
    /\ call.batch[2].record_id = "BC_01_001"
    /\ call.stats.total_patients = 1
    /\ call.stats.total_documents = 2

(***************************************************************************)
(* C17: a statistics query over zero documents completes without a         *)
(* division by zero or other exception, yields a snapshot with             *)
(* total_patients = 0, total_documents = 0 and every aggregate empty, and  *)
(* the handler returns a fallback answer with document_count 0.            *)
(***************************************************************************)
C17_EmptyBatchFallback ==
    (call.fn = "statistics" /\ call.batch = <<>>) =>
        /\ call.stats.total_patients = 0
        /\ call.stats.total_documents = 0
        /\ call.stats.age_stats = EmptyDict
        /\ call.stats.er_stats = EmptyDict
        /\ call.stats_text = <<"header">>
        /\ ~call.result.raised
        /\ call.result.answer = "fallback"
        /\ call.result.document_count = 0

(***************************************************************************)
(* SpecSearch: applications of _search_documents to a direct-lookup        *)
(* result (absent, empty or not), a top_k and the ranked list the vector   *)
(* index holds for the search query.                                       *)
(***************************************************************************)
SearchDocs == [issue_id : IssueIds, kw : {"none"}]

\* the results of _perform_direct_lookup: none attempted, or one that found
\* the documents
DirectResults ==
    {NoLookup} \cup
    {[looked_up |-> IssueIds, documents |-> documents, gets |-> 1] :
        documents \in SeqsUpTo(SearchDocs, MaxDocs)}

\* the lists a vector index can return: entries with their distances,
\* nearest first
RankedResults ==
    {ranked \in SeqsUpTo([issue_id : IssueIds, kw : {"none"}, distance : 0..MaxDist],
                         MaxDocs) :
        \A i \in 1..(Len(ranked) - 1) : ranked[i].distance <= ranked[i + 1].distance}

InitSearch ==
    /\ crf_engine = NoneV
    /\ session = [user_name |-> NoneV, last_engine |-> NoneV]
    /\ req = Idle
    /\ call = NoCall
    /\ conversation_collection = NoConversations
    /\ turns = <<>>

SearchDocuments ==
    /\ call.fn = NoneV
    /\ \E direct \in DirectResults, top_k \in 1..MaxTopK, ranked \in RankedResults :
          call' = [fn |-> "_search_documents", direct |-> direct, top_k |-> top_k,
                   ranked |-> ranked,
                   result |-> _search_documents(direct, top_k, ranked)]
    /\ UNCHANGED <<crf_engine, session, req, memory>>

SearchReturn ==
    /\ call.fn = "_search_documents"
    /\ call' = NoCall
    /\ UNCHANGED <<crf_engine, session, req, memory>>

NextSearch ==
    \/ SearchDocuments
    \/ SearchReturn

SpecSearch == InitSearch /\ [][NextSearch]_vars

MaxDate == 3

NoDate == 0

DateDocs == [surgery : 0..MaxDate, followup : 0..MaxDate]

DateBatches == SeqsUpTo(DateDocs, MaxBatch)

\* crf_statistics.py:382-388: the dates appended to surgery_dates, in
\* document order, one for every document that has one
surgery_dates(batch) ==
    SelectSeq([i \in 1..Len(batch) |-> batch[i].surgery], LAMBDA d : d # NoDate)

\* crf_statistics.py:390-396: the same for followup_dates
followup_dates(batch) ==
    SelectSeq([i \in 1..Len(batch) |-> batch[i].followup], LAMBDA d : d # NoDate)

\* zip(): the pairs by position, as many as the shorter list has
zip(xs, ys) ==
    [i \in 1..(IF Len(xs) < Len(ys) THEN Len(xs) ELSE Len(ys)) |-> <<xs[i], ys[i]>>]

\* crf_statistics.py:621-626: the durations of the zipped pairs whose
\* follow-up date is later than the surgery date
followup_periods(batch) ==
    LET pairs == zip(surgery_dates(batch), followup_dates(batch))
        later == SelectSeq(pairs, LAMBDA p : p[2] > p[1])
    IN  [i \in 1..Len(later) |-> later[i][2] - later[i][1]]

RECURSIVE MinOf(_)
MinOf(values) ==
    IF Len(values) = 1 THEN Head(values)
    ELSE LET m == MinOf(Tail(values)) IN IF Head(values) < m THEN Head(values) ELSE m

RECURSIVE MaxOf(_)
MaxOf(values) ==
    IF Len(values) = 1 THEN Head(values)
    ELSE LET m == MaxOf(Tail(values)) IN IF Head(values) > m THEN Head(values) ELSE m

\* crf_statistics.py:620-636: the aggregate, present when a duration was
\* collected (the means are kept as the sum and the count)
followup_period_stats(batch) ==
    LET periods == followup_periods(batch)
    IN  IF periods # <<>>
        THEN [sum_days |-> Sum(periods), min_days |-> MinOf(periods),
              max_days |-> MaxOf(periods), count |-> Len(periods)]
        ELSE EmptyDict

InitFollowup ==
    /\ crf_engine = "crf"
    /\ session = [user_name |-> NoneV, last_engine |-> NoneV]
    /\ req = Idle
    /\ call = NoCall
    /\ conversation_collection = NoConversations
    /\ turns = <<>>

\* one computation of the aggregate over the batch the index returned
FollowupStatistics ==
    /\ call.fn = NoneV
    /\ \E batch \in DateBatches :
          call' = [fn |-> "followup_period_stats", batch |-> batch,
                   periods |-> followup_periods(batch),
                   stats |-> followup_period_stats(batch)]
    /\ UNCHANGED <<crf_engine, session, req, memory>>

FollowupReturn ==
    /\ call.fn = "followup_period_stats"
    /\ call' = NoCall
    /\ UNCHANGED <<crf_engine, session, req, memory>>

NextFollowup ==
    \/ FollowupStatistics
    \/ FollowupReturn

SpecFollowup == InitFollowup /\ [][NextFollowup]_vars

\* the durations of the documents that carry both dates, the follow-up
\* later than the surgery, in document order
OwnPeriods(batch) ==
    LET both == SelectSeq(batch, LAMBDA d : /\ d.surgery # NoDate
                                            /\ d.followup # NoDate
                                            /\ d.followup > d.surgery)
    IN  [i \in 1..Len(both) |-> both[i].followup - both[i].surgery]

(***************************************************************************)
(* C21: every duration that contributes to followup_period_stats is the    *)
(* difference between the surgery date and the last-follow-up date of one  *)
(* and the same document; exactly the documents with both dates present    *)
(* and the follow-up later than the surgery contribute, so a document      *)
(* lacking one of the dates does not change the pairing of the others.     *)
(***************************************************************************)
C21_PeriodsPairWithinDocument ==
    (call.fn = "followup_period_stats") =>
        /\ call.periods = OwnPeriods(call.batch)
        /\ call.stats = IF OwnPeriods(call.batch) # <<>>
                        THEN [sum_days |-> Sum(OwnPeriods(call.batch)),
                              min_days |-> MinOf(OwnPeriods(call.batch)),
                              max_days |-> MaxOf(OwnPeriods(call.batch)),
                              count |-> Len(OwnPeriods(call.batch))]
                        ELSE EmptyDict

(***************************************************************************)
(* SpecAugment: keyword augmentation and keyword filtering of the redmine  *)
(* engine, applied to a list of retrieved documents (nearest first, the    *)
(* distance growing with the rank), the keywords extracted from the        *)
(* question, the issue collection and limit_per_keyword.                   *)
(***************************************************************************)
\* retrieved documents, nearest first
Ranked(docs) == [i \in 1..Len(docs) |-> Retrieved(docs[i], i - 1)]

\* rag_utils.py:356-375: the keywords for which a substring query is issued
KeywordQueries(entries, keywords) ==
    IF keywords = {} \/ _contains_keywords(entries, keywords) THEN {} ELSE keywords

InitAugment ==
    /\ crf_engine = NoneV
    /\ session = [user_name |-> NoneV, last_engine |-> NoneV]
    /\ req = Idle
    /\ call = NoCall
    /\ conversation_collection = NoConversations
    /\ turns = <<>>

\* rag_engine_helpers.py:481-487: augmentation, then the filter
AugmentAndFilter ==
    /\ call.fn = NoneV
    /\ \E docs \in SeqsUpTo(DocKinds, MaxDocs), coll \in Collections,
          keywords \in SUBSET ModelKeywords, limit_per_keyword \in 1..MaxDocs :
          LET entries == Ranked(docs)
              augmented == _augment_with_keyword_matches(entries, keywords, coll,
                                                         limit_per_keyword)
          IN  call' = [fn |-> "_augment_with_keyword_matches",
                       entries |-> entries,
                       keywords |-> keywords,
                       collection |-> coll,
                       limit_per_keyword |-> limit_per_keyword,
                       queries |-> KeywordQueries(entries, keywords),
                       augmented |-> augmented,
                       filtered |-> _filter_by_keywords(augmented, keywords)]
    /\ UNCHANGED <<crf_engine, session, req, memory>>

AugmentReturn ==
    /\ call.fn = "_augment_with_keyword_matches"
    /\ call' = NoCall
    /\ UNCHANGED <<crf_engine, session, req, memory>>

NextAugment ==
    \/ AugmentAndFilter
    \/ AugmentReturn

SpecAugment == InitAugment /\ [][NextAugment]_vars

\* the documents of a list that contain an extracted keyword
Matching(entries, keywords) ==
    SelectSeq(entries, LAMBDA e : keywords # {} /\ e.kw # "none")

\* the documents the augmentation appended
Added == SubSeq(call.augmented, Len(call.entries) + 1, Len(call.augmented))

(***************************************************************************)
(* C23: substring queries are issued only when no initially retrieved      *)
(* document contains an extracted keyword; the retrieved documents stay,   *)
(* every added document has distance 1.0, no added document belongs to an  *)
(* issue already in the result, and no two added documents belong to the   *)
(* same issue; afterwards the list is reduced to the documents that        *)
(* contain a keyword when there is one and is left unchanged otherwise, so *)
(* a non-empty input never becomes empty.                                  *)
(***************************************************************************)
C23_AugmentThenFilter ==
    (call.fn = "_augment_with_keyword_matches") =>
        /\ (call.queries # {}) => Matching(call.entries, call.keywords) = <<>>
        /\ (call.queries = {}) => call.augmented = call.entries
        /\ SubSeq(call.augmented, 1, Len(call.entries)) = call.entries
        /\ \A i \in 1..Len(Added) :
              /\ Added[i].distance = KEYWORD_FILLER_DISTANCE
              /\ \A j \in 1..Len(call.entries) :
                    Added[i].issue_id # call.entries[j].issue_id
              /\ \A j \in 1..Len(Added) :
                    i # j => Added[i].issue_id # Added[j].issue_id
        /\ call.filtered =
              IF Matching(call.augmented, call.keywords) # <<>>
              THEN Matching(call.augmented, call.keywords)
              ELSE call.augmented
        /\ (call.entries # <<>>) => call.filtered # <<>>

\* a document of another issue was added and one of the retrieved issue was
\* not; the filter kept the added document only
C23_Witness ==
    /\ call.fn = "_augment_with_keyword_matches"
    /\ call.queries = {"resnet"}
    /\ Len(call.entries) = 1
    /\ Len(call.collection.docs) = 2
    /\ call.collection.docs[1].issue_id = call.entries[1].issue_id
    /\ call.collection.docs[1].kw = "body"
    /\ call.limit_per_keyword = 2
    /\ Len(Added) = 1
    /\ Added[1].issue_id # call.entries[1].issue_id
    /\ call.filtered = Added

(***************************************************************************)
(* SpecPostProcess: _post_process_documents of the redmine engine with the *)
(* timestamps and the version matches of the documents.  The collection is *)
(* listed nearest first, every document belongs to an issue of its own,    *)
(* and the search returned the first top_k documents.  A timestamp is a    *)
(* day number, NoStamp when the field is missing or empty and BadStamp     *)
(* when fromisoformat rejects it; boost is the number of version-token     *)
(* matches the re-ranking loop counts in the document.  "v1.2" is a word   *)
(* VERSION_TOKEN_PATTERN matches.                                          *)
(***************************************************************************)
NoStamp == 0
BadStamp == -1

\* updated_on and created_on of a document: neither, created_on only, both,
\* an unparseable updated_on beside a parseable created_on
StampPairs == {<<NoStamp, NoStamp>>, <<NoStamp, 1>>, <<2, 1>>, <<BadStamp, 2>>}

DatedDocs ==
    {d \in [kw : {"none", "body"}, boost : 0..1,
            updated_on : {NoStamp, BadStamp, 2}, created_on : {NoStamp, 1, 2}] :
        <<d.updated_on, d.created_on>> \in StampPairs}

\* the collections, the i-th document being of issue i
DatedCollections ==
    {[int_ids |-> FALSE,
      docs |-> [i \in 1..Len(docs) |->
                   [issue_id |-> i, kw |-> docs[i].kw, boost |-> docs[i].boost,
                    updated_on |-> docs[i].updated_on,
                    created_on |-> docs[i].created_on]]] :
        docs \in SeqsUpTo(DatedDocs, MaxDocs) \ {<<>>}}

VersionWords == {"v1.2"}

PostQuestions ==
    {<<"nalssi">>, <<"resnet">>, <<"recent">>, <<"v1.2">>,
     <<"resnet", "recent">>, <<"resnet", "v1.2">>, <<"recent", "v1.2">>,
     <<"resnet", "recent", "v1.2">>}

\* rag_utils.py:177-186
_extract_version_tokens(q) == {q[i] : i \in 1..Len(q)} \cap VersionWords

\* list.sort(key=..., reverse=True) on (key, item) pairs: descending by key,
\* items of equal key in the order they had
RECURSIVE SortedDescending(_)
SortedDescending(scored) ==
    IF scored = <<>> THEN <<>>
    ELSE LET greatest == CHOOSE m \in {scored[i][1] : i \in 1..Len(scored)} :
                             \A i \in 1..Len(scored) : m >= scored[i][1]
         IN  SelectSeq(scored, LAMBDA x : x[1] = greatest)
                 \o SortedDescending(SelectSeq(scored, LAMBDA x : x[1] # greatest))

Items(scored) == [i \in 1..Len(scored) |-> scored[i][2]]

\* rag_utils.py:401-406: the parsed timestamp, NoStamp for None
_parse_timestamp(value) == IF value > NoStamp THEN value ELSE NoStamp

\* rag_utils.py:414-418: updated_on or created_on, parsed when there is one;
\* the sort key (parsed is not None, parsed) orders None below every date
Parsed(e) ==
    LET timestamp == IF e.updated_on # NoStamp THEN e.updated_on ELSE e.created_on
    IN  IF timestamp # NoStamp THEN _parse_timestamp(timestamp) ELSE NoStamp

Reversed(entries) == [i \in 1..Len(entries) |-> entries[Len(entries) + 1 - i]]

\* a sort by timestamp that turns the order of equal timestamps around
_sort_by_recency_TiesReversed(entries) ==
    Items(SortedDescending([i \in 1..Len(entries) |->
                               <<Parsed(Reversed(entries)[i]), Reversed(entries)[i]>>]))

\* rag_utils.py:408-426
_sort_by_recency(entries) ==
    Items(SortedDescending([i \in 1..Len(entries) |-> <<Parsed(entries[i]), entries[i]>>]))

\* rag_engine_helpers.py:494-505: 1 - distance + 0.3 * boost, in units of 0.05
VersionScore(e) == (20 - e.distance) + 6 * e.boost

\* rag_engine_helpers.py:489-511
RerankedByVersion(entries, version_tokens) ==
    IF version_tokens # {} /\ entries # <<>>
    THEN Items(SortedDescending([i \in 1..Len(entries) |->
                                    <<VersionScore(entries[i]), entries[i]>>]))
    ELSE entries

\* rag_engine_helpers.py:474-518 with the three steps computed: the list
\* after the keyword step, after the version step and the returned one
PostProcessSteps(entries, q, coll, cache, limit_per_keyword) ==
    LET keywords == _extract_model_keywords(q, cache)
        kept == IF keywords # {}
                THEN _filter_by_keywords(
                         _augment_with_keyword_matches(entries, keywords, coll,
                                                       limit_per_keyword),
                         keywords)
                ELSE entries
        reranked == RerankedByVersion(kept, _extract_version_tokens(q))
    IN  [kept |-> kept,
         reranked |-> reranked,
         documents |-> IF _is_recent_query(q) THEN _sort_by_recency(reranked)
                       ELSE reranked]

InitPostProcess ==
    /\ crf_engine = NoneV
    /\ session = [user_name |-> NoneV, last_engine |-> NoneV]
    /\ req = Idle
    /\ call = NoCall
    /\ conversation_collection = NoConversations
    /\ turns = <<>>

\* rag_engine.py:114-127: the search found documents and query() hands
\* them to _post_process_documents
PostProcessDocuments ==
    /\ call.fn = NoneV
    /\ \E coll \in DatedCollections, question \in PostQuestions,
          limit_per_keyword \in 1..MaxDocs :
          \E top_k \in 1..Len(coll.docs) :
              LET entries == Ranked(FirstN(coll.docs, top_k))
              IN  call' = [fn |-> "_post_process_documents",
                           collection |-> coll,
                           question |-> question,
                           entries |-> entries,
                           result |-> PostProcessSteps(entries, question, coll,
                                                       ModelKeywords,
                                                       limit_per_keyword)]
    /\ UNCHANGED <<crf_engine, session, req, memory>>

PostProcessReturn ==
    /\ call.fn = "_post_process_documents"
    /\ call' = NoCall
    /\ UNCHANGED <<crf_engine, session, req, memory>>

NextPostProcess ==
    \/ PostProcessDocuments
    \/ PostProcessReturn

SpecPostProcess == InitPostProcess /\ [][NextPostProcess]_vars

\* the same documents, in some order
SameDocuments(xs, ys) ==
    /\ Len(xs) = Len(ys)
    /\ {xs[i] : i \in 1..Len(xs)} = {ys[i] : i \in 1..Len(ys)}

\* the position of a document in a list that holds it once
PositionIn(xs, x) == CHOOSE i \in 1..Len(xs) : xs[i] = x

\* the timestamp the order goes by: updated_on when the document has one,
\* else created_on; a date when it parses, nothing otherwise
StampOf(e) ==
    LET field == IF e.updated_on # NoStamp THEN e.updated_on ELSE e.created_on
    IN  IF field \in {NoStamp, BadStamp} THEN <<>> ELSE <<field>>

(***************************************************************************)
(* C22: post-processing applies keyword augmentation, then version-token   *)
(* re-ranking, then recency reordering.  For a recent-query the returned   *)
(* order is by parsed timestamp (updated_on, else created_on) descending,  *)
(* the documents without a parseable timestamp come after all the others,  *)
(* and documents with equal or missing timestamps keep the relative order  *)
(* they had before the recency step.                                       *)
(***************************************************************************)
C22_RecencyOrderIsStable ==
    (call.fn = "_post_process_documents") =>
        LET kept == call.result.kept
            reranked == call.result.reranked
            documents == call.result.documents
        IN  /\ \A i \in 1..Len(kept) :
                  kept[i].distance = KEYWORD_FILLER_DISTANCE
                      \/ \E j \in 1..Len(call.entries) : kept[i] = call.entries[j]
            /\ SameDocuments(reranked, kept)
            /\ IF _extract_version_tokens(call.question) # {}
               THEN \A i, j \in 1..Len(reranked) :
                       i < j => VersionScore(reranked[i]) >= VersionScore(reranked[j])
               ELSE reranked = kept
            /\ SameDocuments(documents, reranked)
            /\ IF _is_recent_query(call.question)
               THEN \A i, j \in 1..Len(documents) :
                       i < j =>
                           \/ /\ StampOf(documents[i]) # <<>>
                              /\ StampOf(documents[j]) = <<>>
                           \/ /\ StampOf(documents[i]) # <<>>
                              /\ StampOf(documents[j]) # <<>>
                              /\ StampOf(documents[i])[1] > StampOf(documents[j])[1]
                           \/ /\ StampOf(documents[i]) = StampOf(documents[j])
                              /\ PositionIn(reranked, documents[i])
                                     < PositionIn(reranked, documents[j])
               ELSE documents = reranked

\* a recent-query with a version token: the version step moved the second
\* document to the front and the recency step moved it back behind the
\* other, its updated_on being unparseable
C22_Witness ==
    /\ call.fn = "_post_process_documents"
    /\ _is_recent_query(call.question)
    /\ _extract_version_tokens(call.question) # {}
    /\ Len(call.result.documents) = 2
    /\ call.result.reranked # call.result.kept
    /\ call.result.documents # call.result.reranked
    /\ call.result.documents[2].updated_on = BadStamp

(***************************************************************************)
(* SpecChunks: the chunk loop of _handle_crf_statistics_query.  The        *)
(* statistics text is a sequence of characters and max_chars, 80000 in the *)
(* handler, ranges over 1..MaxChars so that texts of up to MaxText         *)
(* characters need several chunks.  A generation response is its list of   *)
(* parts, each a text or an inline image; the call can also raise.         *)
(***************************************************************************)
MaxText == 3
MaxChars == 2

Texts == SeqsUpTo({"a", "b"}, MaxText)

\* the parts of one generation response that the handler collects
Responses == {<<>>, <<"text">>, <<"inline_data">>, <<"text", "inline_data">>,
              <<"inline_data", "text">>}

\* the slices text[i:i + max_chars] for i in range(0, len(text), max_chars)
RECURSIVE Slices(_, _)
Slices(text, max_chars) ==
    IF text = <<>> THEN <<>>
    ELSE IF Len(text) <= max_chars THEN <<text>>
    ELSE <<SubSeq(text, 1, max_chars)>>
             \o Slices(SubSeq(text, max_chars + 1, Len(text)), max_chars)

\* a chunking that drops the last, shorter slice
_chunk_statistics_text_FullSlicesOnly(text, max_chars) ==
    IF Len(text) <= max_chars THEN <<text>>
    ELSE LET chunks == Slices(text, max_chars)
         IN  SelectSeq(chunks, LAMBDA c : Len(c) = max_chars)

\* rag_utils.py:201-213
_chunk_statistics_text(text, max_chars) ==
    IF Len(text) <= max_chars THEN <<text>>
    ELSE Slices(text, max_chars)

\* the parts of a kind in a response, tagged with the chunk they answer
PartsOf(response, kind, idx) ==
    LET parts == SelectSeq(response, LAMBDA p : p = kind)
    IN  [i \in 1..Len(parts) |-> idx]

InitChunks ==
    /\ crf_engine = "crf"
    /\ session = [user_name |-> NoneV, last_engine |-> NoneV]
    /\ req = Idle
    /\ call = NoCall
    /\ conversation_collection = NoConversations
    /\ turns = <<>>

\* rag_engine_helpers.py:99-164: the statistics text is computed and chunked
StatisticsChunks ==
    /\ call.fn = NoneV
    /\ \E text \in Texts, max_chars \in 1..MaxChars :
          call' = [fn |-> "_handle_crf_statistics_query", pc |-> "loop",
                   text |-> text, max_chars |-> max_chars,
                   stat_chunks |-> _chunk_statistics_text(text, max_chars),
                   calls |-> <<>>, text_responses |-> <<>>, chart_images |-> <<>>]
    /\ UNCHANGED <<crf_engine, session, req, memory>>

\* rag_engine_helpers.py:171-222: one pass of the loop, the generation
\* call for the next chunk and the collection of its parts
GenerateContent ==
    /\ call.fn = "_handle_crf_statistics_query"
    /\ call.pc = "loop"
    /\ Len(call.calls) < Len(call.stat_chunks)
    /\ LET idx == Len(call.calls) + 1
           made == Append(call.calls, <<idx, call.stat_chunks[idx]>>)
       IN  \/ \E response \in Responses :
                 call' = [call EXCEPT
                     !.calls = made,
                     !.text_responses = @ \o PartsOf(response, "text", idx),
                     !.chart_images = @ \o PartsOf(response, "inline_data", idx)]
           \/ call' = [call EXCEPT !.calls = made, !.pc = "raised"]
    /\ UNCHANGED <<crf_engine, session, req, memory>>

\* rag_engine_helpers.py:224-230: the loop is over, the handler returns
StatisticsAnswer ==
    /\ call.fn = "_handle_crf_statistics_query"
    /\ call.pc = "loop"
    /\ Len(call.calls) = Len(call.stat_chunks)
    /\ call' = [call EXCEPT !.pc = "returned"]
    /\ UNCHANGED <<crf_engine, session, req, memory>>

ChunksReturn ==
    /\ call.fn = "_handle_crf_statistics_query"
    /\ call.pc \in {"returned", "raised"}
    /\ call' = NoCall
    /\ UNCHANGED <<crf_engine, session, req, memory>>

NextChunks ==
    \/ StatisticsChunks
    \/ GenerateContent
    \/ StatisticsAnswer
    \/ ChunksReturn

SpecChunks == InitChunks /\ [][NextChunks]_vars

RECURSIVE Concatenated(_)
Concatenated(chunks) ==
    IF chunks = <<>> THEN <<>> ELSE Head(chunks) \o Concatenated(Tail(chunks))

NonDecreasing(indexes) ==
    \A i, j \in 1..Len(indexes) : i < j => indexes[i] <= indexes[j]

Threads == {1, 2}
StoredDocs == 1..MaxDocs
NotBuilt == -1
\* None as a count: count() raised, or the attribute is not set
NoCount == -2

\* the attributes are not set before the first call: getattr gives None
NoCache == [keywords |-> {}, built_from |-> NoCount]

ThreadIdle == [pc |-> "idle"]

InitCache ==
    /\ crf_engine = NoneV
    /\ session = [user_name |-> NoneV, last_engine |-> NoneV]
    /\ req = Idle
    /\ call = [fn |-> "_get_model_keyword_cache",
               collection |-> {},
               _model_keyword_cache |-> NoCache,
               _model_keyword_cache_count |-> NoCount,
               threads |-> [t \in Threads |-> ThreadIdle]]
    /\ conversation_collection = NoConversations
    /\ turns = <<>>

CacheCall == call.fn = "_get_model_keyword_cache"

\* the collection changes under the engine: a document is stored
StoreDocument ==
    /\ CacheCall
    /\ \E d \in StoredDocs \ call.collection :
          call' = [call EXCEPT !.collection = @ \cup {d}]
    /\ UNCHANGED <<crf_engine, session, req, memory>>

\* a document is removed
RemoveDocument ==
    /\ CacheCall
    /\ \E d \in call.collection :
          call' = [call EXCEPT !.collection = @ \ {d}]
    /\ UNCHANGED <<crf_engine, session, req, memory>>

\* rag_utils.py:263-264: the two attributes are read into locals
ReadCache(t) ==
    /\ CacheCall
    /\ call.threads[t].pc = "idle"
    /\ call' = [call EXCEPT !.threads[t] =
                   [pc |-> "count",
                    cache |-> call._model_keyword_cache,
                    cache_count |-> call._model_keyword_cache_count]]
    /\ UNCHANGED <<crf_engine, session, req, memory>>

\* rag_utils.py:266-272: count(), None when it raises, and the early return
\* of the cache read at the start
CountAndCompare(t) ==
    /\ CacheCall
    /\ call.threads[t].pc = "count"
    /\ \E current_count \in {NoCount, Cardinality(call.collection)} :
          LET cache == call.threads[t].cache
              cache_count == call.threads[t].cache_count
          IN  IF cache # NoCache /\ (current_count = NoCount \/ cache_count = current_count)
              THEN call' = [call EXCEPT !.threads[t] =
                               [pc |-> "returned", current_count |-> current_count,
                                result |-> cache, served |-> TRUE]]
              ELSE call' = [call EXCEPT !.threads[t] =
                               [pc |-> "get", current_count |-> current_count]]
    /\ UNCHANGED <<crf_engine, session, req, memory>>

\* rag_utils.py:274-285: get() and the keyword set built from its result
GetMetadatas(t) ==
    /\ CacheCall
    /\ call.threads[t].pc = "get"
    /\ call' = [call EXCEPT !.threads[t] =
                   [pc |-> "assign_cache",
                    current_count |-> call.threads[t].current_count,
                    keywords |-> [keywords |-> call.collection,
                                  built_from |-> Cardinality(call.collection)]]]
    /\ UNCHANGED <<crf_engine, session, req, memory>>

\* rag_utils.py:288-290: get() raised: the cache becomes the empty set, the
\* recorded count stays
GetRaises(t) ==
    /\ CacheCall
    /\ call.threads[t].pc = "get"
    /\ call' = [call EXCEPT
                   !._model_keyword_cache = [keywords |-> {}, built_from |-> NotBuilt],
                   !.threads[t] = [pc |-> "return",
                                   current_count |-> call.threads[t].current_count]]
    /\ UNCHANGED <<crf_engine, session, req, memory>>

\* rag_utils.py:286
AssignCache(t) ==
    /\ CacheCall
    /\ call.threads[t].pc = "assign_cache"
    /\ call' = [call EXCEPT
                   !._model_keyword_cache = call.threads[t].keywords,
                   !.threads[t] = [pc |-> "assign_count",
                                   current_count |-> call.threads[t].current_count]]
    /\ UNCHANGED <<crf_engine, session, req, memory>>

\* rag_utils.py:287
AssignCount(t) ==
    /\ CacheCall
    /\ call.threads[t].pc = "assign_count"
    /\ call' = [call EXCEPT
                   !._model_keyword_cache_count = call.threads[t].current_count,
                   !.threads[t] = [pc |-> "return",
                                   current_count |-> call.threads[t].current_count]]
    /\ UNCHANGED <<crf_engine, session, req, memory>>

\* rag_utils.py:292: the attribute is read again and returned
ReturnAttribute(t) ==
    /\ CacheCall
    /\ call.threads[t].pc = "return"
    /\ call' = [call EXCEPT !.threads[t] =
                   [pc |-> "returned",
                    current_count |-> call.threads[t].current_count,
                    result |-> call._model_keyword_cache, served |-> FALSE]]
    /\ UNCHANGED <<crf_engine, session, req, memory>>

\* the caller has its keyword set
CacheReturn(t) ==
    /\ CacheCall
    /\ call.threads[t].pc = "returned"
    /\ call' = [call EXCEPT !.threads[t] = ThreadIdle]
    /\ UNCHANGED <<crf_engine, session, req, memory>>

NextCache ==
    \/ StoreDocument
    \/ RemoveDocument
    \/ \E t \in Threads : ReadCache(t)
    \/ \E t \in Threads : CountAndCompare(t)
    \/ \E t \in Threads : GetMetadatas(t)
    \/ \E t \in Threads : GetRaises(t)
    \/ \E t \in Threads : AssignCache(t)
    \/ \E t \in Threads : AssignCount(t)
    \/ \E t \in Threads : ReturnAttribute(t)
    \/ \E t \in Threads : CacheReturn(t)

SpecCache == InitCache /\ [][NextCache]_vars

\* a cached set returned after a successful count() was built from
\* contents of the current size
C25_ServedBuiltAtCurrentSize ==
    CacheCall =>
        \A t \in Threads :
            (/\ call.threads[t].pc = "returned"
             /\ call.threads[t].served
             /\ call.threads[t].current_count # NoCount)
                => call.threads[t].result.built_from = call.threads[t].current_count

\* no caller at work: the recorded size is that of the contents the cache
\* was built from
C25_RecordedSizeMatches ==
    (/\ CacheCall
     /\ \A t \in Threads : call.threads[t].pc = "idle"
     /\ call._model_keyword_cache # NoCache
     /\ call._model_keyword_cache_count # NoCount)
        => call._model_keyword_cache.built_from = call._model_keyword_cache_count

(***************************************************************************)
(* C25: whenever _get_model_keyword_cache returns a cached keyword set and *)
(* count() succeeded, the set was built from the collection's contents at  *)
(* a moment when the collection had the current size; concurrent callers   *)
(* never leave a cache whose recorded size does not correspond to the      *)
(* contents it was built from, and a failed rebuild never leaves a stale   *)
(* or empty cache that is later served as valid for the current size.      *)
(***************************************************************************)
C25_CacheValidForCurrentSize ==
    /\ C25_ServedBuiltAtCurrentSize
    /\ C25_RecordedSizeMatches

(***************************************************************************)
(* SpecRates: the percentages of calculate_crf_statistics over batches of  *)
(* documents that carry a record identifier, the receptor lines, the       *)
(* recurrence lines, a Ki-67 value, the lymph-node line and the survival   *)
(* line, or lack them.  A percentage round(a / b * 100, 1) is kept as the  *)
(* integer part of a * 100 / b.                                            *)
(***************************************************************************)
NoValue == -1

\* ER, PR, HER2 of a document: "pos" for 1, "neg" for 0, "" for no line
ReceptorLines ==
    {<<"", "", "">>, <<"pos", "", "">>, <<"pos", "pos", "neg">>, <<"neg", "neg", "neg">>}

\* the axillary, surgery-site and distant recurrence lines of a document
RecurrenceLines ==
    {<<"", "", "">>, <<"0", "0", "0">>, <<"1", "1", "1">>, <<"", "1", "">>}

\* the Ki-67 value, the lymph-node line and the survival line of a document
OtherLines ==
    {<<NoValue, "", "">>, <<5, "0", "0">>, <<25, "1", "1">>, <<25, "3", "2">>}

RateDocs ==
    {[record_id |-> r,
      er |-> receptors[1], pr |-> receptors[2], her2 |-> receptors[3],
      axillary |-> recurrence[1], surgery_site |-> recurrence[2],
      distant |-> recurrence[3],
      ki67 |-> other[1], lymph_node |-> other[2], survival |-> other[3]] :
        r \in RecordIds \cup {""}, receptors \in ReceptorLines,
        recurrence \in RecurrenceLines, other \in OtherLines}

RateBatches == SeqsUpTo(RateDocs, MaxBatch)

\* the number of documents of a batch that satisfy a test
Count(batch, Test(_)) == Cardinality({i \in 1..Len(batch) : Test(batch[i])})

Percentage(part, total) == (part * 100) \div total

\* crf_statistics.py:427-433
pr_stats(batch) ==
    LET pr_total == Count(batch, LAMBDA d : d.pr # "")
        pr_positive == Count(batch, LAMBDA d : d.pr = "pos")
    IN  IF pr_total > 0
        THEN [positive |-> pr_positive, total |-> pr_total,
              percentage |-> Percentage(pr_positive, pr_total)]
        ELSE EmptyDict

\* crf_statistics.py:435-441
her2_stats(batch) ==
    LET her2_total == Count(batch, LAMBDA d : d.her2 # "")
        her2_positive == Count(batch, LAMBDA d : d.her2 = "pos")
    IN  IF her2_total > 0
        THEN [positive |-> her2_positive, total |-> her2_total,
              percentage |-> Percentage(her2_positive, her2_total)]
        ELSE EmptyDict

KI67_THRESHOLDS == <<10, 20, 30>>

\* crf_statistics.py:458-475: the percentage of the Ki-67 values at or above
\* each threshold
ki67_thresholds(batch) ==
    LET values == Count(batch, LAMBDA d : d.ki67 # NoValue)
    IN  IF values > 0
        THEN [t \in 1..Len(KI67_THRESHOLDS) |->
                 LET above_count == Count(batch, LAMBDA d : /\ d.ki67 # NoValue
                                                           /\ d.ki67 >= KI67_THRESHOLDS[t])
                 IN  [threshold |-> KI67_THRESHOLDS[t], count |-> above_count,
                      percentage |-> Percentage(above_count, values)]]
        ELSE <<>>

\* crf_statistics.py:259-264, 477-483
lymph_node_stats(batch) ==
    LET lymph_node_total == Count(batch, LAMBDA d : d.lymph_node # "")
        lymph_node_positive == Count(batch, LAMBDA d : d.lymph_node \notin {"", "0"})
    IN  IF lymph_node_total > 0
        THEN [positive |-> lymph_node_positive, total |-> lymph_node_total,
              percentage |-> Percentage(lymph_node_positive, lymph_node_total)]
        ELSE EmptyDict

\* crf_statistics.py:277-294, 507-517: recurrence_total counts the documents
\* with an axillary line, the numerator adds up the three kinds of recurrence
recurrence_stats(batch) ==
    LET recurrence_total == Count(batch, LAMBDA d : d.axillary # "")
        axillary_recurrence == Count(batch, LAMBDA d : d.axillary = "1")
        surgery_site_recurrence == Count(batch, LAMBDA d : d.surgery_site = "1")
        distant_metastasis == Count(batch, LAMBDA d : d.distant = "1")
        total_recurrence == axillary_recurrence + surgery_site_recurrence
                                + distant_metastasis
    IN  IF recurrence_total > 0
        THEN [total_with_recurrence |-> total_recurrence,
              total_patients |-> recurrence_total,
              recurrence_rate |-> IF total_recurrence > 0
                                  THEN Percentage(total_recurrence, recurrence_total)
                                  ELSE 0]
        ELSE EmptyDict

\* crf_statistics.py:296-306, 519-527
survival_stats(batch) ==
    LET survival_total == Count(batch, LAMBDA d : d.survival # "")
        alive == Count(batch, LAMBDA d : d.survival = "0")
    IN  IF survival_total > 0
        THEN [alive |-> alive, total |-> survival_total,
              survival_rate |-> Percentage(alive, survival_total)]
        ELSE EmptyDict

ComboKeys == {"her2_positive", "er_positive", "pr_positive", "er_pr_positive",
              "hr_positive_her2_negative", "triple_negative"}

\* crf_statistics.py:185-195: whether a document with the three receptor
\* lines counts for a key
InCombo(d, key) ==
    CASE key = "her2_positive" -> d.her2 = "pos"
      [] key = "er_positive" -> d.er = "pos"
      [] key = "pr_positive" -> d.pr = "pos"
      [] key = "er_pr_positive" -> d.er = "pos" /\ d.pr = "pos"
      [] key = "hr_positive_her2_negative" ->
             (d.er = "pos" \/ d.pr = "pos") /\ d.her2 # "pos"
      [] key = "triple_negative" -> d.er # "pos" /\ d.pr # "pos" /\ d.her2 # "pos"

\* crf_statistics.py:537-546: the counts are per document, the total is the
\* number of distinct record identifiers, or of documents when there is none
biomarker_combinations(batch) ==
    LET complete == SelectSeq(batch, LAMBDA d : d.er # "" /\ d.pr # "" /\ d.her2 # "")
        records == Cardinality(unique_records(batch))
        total == IF records # 0 THEN records ELSE Len(batch)
    IN  IF complete # <<>>
        THEN [key \in ComboKeys |->
                 LET val == Count(complete, LAMBDA d : InCombo(d, key))
                 IN  [count |-> val,
                      percentage |-> IF total # 0 THEN Percentage(val, total) ELSE 0]]
        ELSE EmptyDict

\* crf_statistics.py:13-636: the aggregates that hold a percentage
PercentageStatistics(batch) ==
    [total_patients |-> Cardinality(unique_records(batch)),
     total_documents |-> Len(batch),
     er_stats |-> er_stats(batch),
     pr_stats |-> pr_stats(batch),
     her2_stats |-> her2_stats(batch),
     ki67_thresholds |-> ki67_thresholds(batch),
     lymph_node_stats |-> lymph_node_stats(batch),
     recurrence_stats |-> recurrence_stats(batch),
     survival_stats |-> survival_stats(batch),
     biomarker_combinations |-> biomarker_combinations(batch)]

InitRates ==
    /\ crf_engine = "crf"
    /\ session = [user_name |-> NoneV, last_engine |-> NoneV]
    /\ req = Idle
    /\ call = NoCall
    /\ conversation_collection = NoConversations
    /\ turns = <<>>

\* one computation of the snapshot over the batch the index returned
CalculateStatistics ==
    /\ call.fn = NoneV
    /\ \E batch \in RateBatches :
          call' = [fn |-> "calculate_crf_statistics", batch |-> batch,
                   stats |-> PercentageStatistics(batch)]
    /\ UNCHANGED <<crf_engine, session, req, memory>>

RatesReturn ==
    /\ call.fn = "calculate_crf_statistics"
    /\ call' = NoCall
    /\ UNCHANGED <<crf_engine, session, req, memory>>

NextRates ==
    \/ CalculateStatistics
    \/ RatesReturn

SpecRates == InitRates /\ [][NextRates]_vars

InRange(percentage) == percentage \in 0..100

\* the percentages of the receptor, Ki-67, lymph-node and survival aggregates
C26_SimpleRatesInRange ==
    (call.fn = "calculate_crf_statistics") =>
        /\ call.stats.er_stats # EmptyDict => InRange(call.stats.er_stats.percentage)
        /\ call.stats.pr_stats # EmptyDict => InRange(call.stats.pr_stats.percentage)
        /\ call.stats.her2_stats # EmptyDict => InRange(call.stats.her2_stats.percentage)
        /\ \A t \in 1..Len(call.stats.ki67_thresholds) :
              InRange(call.stats.ki67_thresholds[t].percentage)
        /\ call.stats.lymph_node_stats # EmptyDict
              => InRange(call.stats.lymph_node_stats.percentage)
        /\ call.stats.survival_stats # EmptyDict
              => InRange(call.stats.survival_stats.survival_rate)

C26_CombinationsInRange ==
    (call.fn = "calculate_crf_statistics"
        /\ call.stats.biomarker_combinations # EmptyDict) =>
            \A key \in ComboKeys :
                InRange(call.stats.biomarker_combinations[key].percentage)

C26_RecurrenceRateInRange ==
    (call.fn = "calculate_crf_statistics" /\ call.stats.recurrence_stats # EmptyDict)
        => InRange(call.stats.recurrence_stats.recurrence_rate)

(***************************************************************************)
(* C26: every percentage of a statistics snapshot lies between 0 and 100   *)
(* for every batch, also when one record identifier occurs in several      *)
(* documents: the receptor percentages, the Ki-67 threshold percentages,   *)
(* the lymph-node percentage, the survival rate, each                      *)
(* biomarker_combinations percentage and the recurrence_rate.              *)
(***************************************************************************)
C26_PercentagesInRange ==
    /\ C26_SimpleRatesInRange
    /\ C26_CombinationsInRange
    /\ C26_RecurrenceRateInRange

(***************************************************************************)
(* SpecWorkers: /chat requests of one client under one user name, handled  *)
(* by two workers at the same time (gunicorn_config.py: several sync       *)
(* workers), so that all of them are of one session.  The session is       *)
(* the client's cookie: a worker works on the copy its request carried,    *)
(* and the client replaces its cookie by the copy a response brings back.  *)
(* The workers share the conversation store.                               *)
(***************************************************************************)
Workers == {1, 2}

\* a question routed by its issue number and one routed by its record identifier
WorkerQuestions == {<<"#123">>, <<"BC_01_001">>}

\* the user name of every request
WorkerUser == "alice"

WorkerIdle == [pc |-> "idle"]

InitWorkers ==
    /\ crf_engine = "crf"
    /\ session = NoSession
    /\ req = [w \in Workers |-> WorkerIdle]
    /\ call \in {[fn |-> "config", max_turns_in_memory |-> k] : k \in 1..MaxInMemory}
    /\ conversation_collection = NoConversations
    /\ turns = <<>>

\* the requests a worker is answering
InFlightWorkers == {w \in Workers : req[w].pc = "routed"}

\* app.py:79-173: the worker receives a request with the cookie the client
\* holds, validates it, sets the session up, reads it and routes
WorkerChatRoute(w) ==
    /\ req[w].pc = "idle"
    /\ Len(turns) + Cardinality(InFlightWorkers) < MaxTurns
    /\ \E question \in WorkerQuestions :
        LET user_name == WorkerUser
            sess == SessionSetUp(session, user_name)
        IN  \E engine_name \in RoutedEngines(question, sess.last_engine, crf_engine) :
               req' = [req EXCEPT ![w] =
                          [pc |-> "routed", question |-> question,
                           user_name |-> user_name,
                           before |-> session, session |-> sess,
                           session_id |-> SessionId(user_name),
                           chat_history |-> sess.chat_history,
                           turn_index |-> sess.turn_index,
                           engine_name |-> engine_name]]
    /\ UNCHANGED <<crf_engine, session, call, memory>>

\* app.py:175-196: the answer is there, the turn is saved and the worker's
\* copy of the session updated
WorkerChatAnswer(w) ==
    /\ req[w].pc = "routed"
    /\ \E ok \in BOOLEAN :
        LET turn == Len(turns) + 1
            saved == save_conversation(conversation_collection, req[w].session_id,
                                       req[w].turn_index, req[w].question, turn, ok)
        IN  /\ conversation_collection' = saved.collection
            /\ turns' = Append(turns, req[w].user_name)
            /\ req' = [req EXCEPT
                          ![w].pc = "done",
                          ![w].session = SessionAfterTurn(req[w].session,
                                             req[w].chat_history, req[w].turn_index,
                                             turn, req[w].engine_name,
                                             call.max_turns_in_memory)]
    /\ UNCHANGED <<crf_engine, session, call>>

\* app.py:198-200: query() raised
WorkerChatFail(w) ==
    /\ req[w].pc = "routed"
    /\ req' = [req EXCEPT ![w].pc = "failed"]
    /\ UNCHANGED <<crf_engine, session, call, memory>>

\* the response reaches the client, which keeps the cookie it carries (a
\* response whose session was not modified carries none)
WorkerChatReturn(w) ==
    /\ req[w].pc \in {"done", "failed"}
    /\ session' = IF req[w].session # req[w].before THEN req[w].session ELSE session
    /\ req' = [req EXCEPT ![w] = WorkerIdle]
    /\ UNCHANGED <<crf_engine, call, memory>>

NextWorkers ==
    \/ \E w \in Workers : WorkerChatRoute(w)
    \/ \E w \in Workers : WorkerChatAnswer(w)
    \/ \E w \in Workers : WorkerChatFail(w)
    \/ \E w \in Workers : WorkerChatReturn(w)

SpecWorkers == InitWorkers /\ [][NextWorkers]_vars

\* no two turns persisted under one (session_id, turn_index)
C27_PersistedTurnsDistinct ==
    \A i, j \in 1..Len(conversation_collection.docs) :
        (/\ i # j
         /\ conversation_collection.docs[i].session_id
              = conversation_collection.docs[j].session_id) =>
            conversation_collection.docs[i].turn_index
                # conversation_collection.docs[j].turn_index

\* both workers are done: the session holds every answered turn (the last
\* max_turns_in_memory of them) and has counted them all
C27_SessionHoldsBothTurns ==
    (\A w \in Workers : req[w].pc = "idle") =>
        /\ session.turn_index = Len(turns)
        /\ session.chat_history
              = LastTurns([n \in 1..Len(turns) |-> n], call.max_turns_in_memory)

(***************************************************************************)
(* C27: two /chat requests of the same session handled concurrently by     *)
(* different workers never persist two turns with the same (session_id,    *)
(* turn_index), and after both are complete the session's chat_history     *)
(* contains both turns and turn_index has advanced by two.                 *)
(***************************************************************************)
C27_ConcurrentRequestsBothCounted ==
    /\ C27_PersistedTurnsDistinct
    /\ C27_SessionHoldsBothTurns

(***************************************************************************)
(* User management: get_user_list and delete_user over the conversation    *)
(* store.  A string is the sequence of its pieces; the piece "PREFIX" is   *)
(* the text of SESSION_ID_PREFIX (its value is set in config/constants.py; *)
(* it is taken to be non-empty), the other pieces are texts that do not    *)
(* overlap it.  /chat accepts every non-empty user_name (app.py:87-88).    *)
(***************************************************************************)
SESSION_ID_PREFIX == <<"PREFIX">>

UserNames ==
    {<<"alice">>, <<"bob">>, <<"PREFIX", "alice">>, <<"alice", "PREFIX">>}

\* app.py:91 and rag_utils.py:644: f"{SESSION_ID_PREFIX}{user_name}"
FormatSessionId(user_name) == SESSION_ID_PREFIX \o user_name

\* str.startswith
startswith(s, prefix) ==
    /\ Len(s) >= Len(prefix)
    /\ SubSeq(s, 1, Len(prefix)) = prefix

\* str.replace(old, ''): every occurrence of old is removed, left to right
RECURSIVE replace(_, _)
replace(s, old) ==
    IF s = <<>>
    THEN <<>>
    ELSE IF startswith(s, old)
         THEN replace(SubSeq(s, Len(old) + 1, Len(s)), old)
         ELSE <<Head(s)>> \o replace(Tail(s), old)

\* rag_utils.py:597-605: the positions of the stored turns counted for a name
CountedFor(collection, user_name) ==
    {i \in 1..Len(collection.docs) :
        /\ startswith(collection.docs[i].session_id, SESSION_ID_PREFIX)
        /\ replace(collection.docs[i].session_id, SESSION_ID_PREFIX) = user_name}

\* rag_utils.py:607-613: last_seen of a name; a store keeps the turns in the
\* order of their timestamps
LastSeen(collection, user_name) ==
    CHOOSE i \in CountedFor(collection, user_name) :
        \A j \in CountedFor(collection, user_name) : j <= i

\* rag_utils.py:630: user_list.sort(key=last_seen, reverse=True)
RECURSIVE SortedByLastSeen(_, _)
SortedByLastSeen(collection, names) ==
    IF names = {}
    THEN <<>>
    ELSE LET latest == CHOOSE n \in names :
                          \A m \in names :
                              LastSeen(collection, m) <= LastSeen(collection, n)
         IN  <<[user_name |-> latest,
                total_conversations |->
                    Cardinality(CountedFor(collection, latest))]>>
                 \o SortedByLastSeen(collection, names \ {latest})

\* rag_utils.py:575-636: the list get_user_list returns; ok is FALSE when
\* count() or get() raises, which the function logs before it returns []
get_user_list(collection, ok) ==
    IF ~collection.present \/ ~ok \/ collection.docs = <<>>
    THEN <<>>
    ELSE SortedByLastSeen(collection,
             {replace(collection.docs[i].session_id, SESSION_ID_PREFIX) :
                 i \in {j \in 1..Len(collection.docs) :
                           startswith(collection.docs[j].session_id,
                                      SESSION_ID_PREFIX)}})

\* rag_utils.py:638-662: the store after delete_user and what it returns; ok
\* is FALSE when get() or delete() raises
delete_user(collection, user_name, ok) ==
    IF ~collection.present \/ ~ok
    THEN [collection |-> collection, result |-> FALSE]
    ELSE [collection |->
              [collection EXCEPT
                  !.docs = SelectSeq(@, LAMBDA d :
                               d.session_id # FormatSessionId(user_name))],
          result |-> TRUE]

InitUsers ==
    /\ conversation_collection = [present |-> TRUE, docs |-> <<>>]
    /\ turns = <<>>
    /\ crf_engine = NoneV
    /\ session = [user_name |-> NoneV, last_engine |-> NoneV]
    /\ req = Idle
    /\ call = NoCall

\* app.py:79-91, 182-187: an answered /chat of user_name persists its turn
UserChat ==
    /\ call.fn = NoneV
    /\ Len(conversation_collection.docs) < MaxStored
    /\ \E user_name \in UserNames, question \in MemoryQuestions :
          LET session_id == FormatSessionId(user_name)
              turn_index == Cardinality({i \in 1..Len(conversation_collection.docs) :
                                conversation_collection.docs[i].session_id
                                    = session_id})
          IN  conversation_collection' =
                  save_conversation(conversation_collection, session_id,
                                    turn_index, question, "a1", TRUE).collection
    /\ UNCHANGED <<crf_engine, session, req, call, turns>>

\* app.py:214-222: GET /users
GetUsers ==
    /\ call.fn = NoneV
    /\ \E ok \in BOOLEAN :
          call' = [fn |-> "get_user_list",
                   collection |-> conversation_collection,
                   ok |-> ok,
                   users |-> get_user_list(conversation_collection, ok)]
    /\ UNCHANGED <<crf_engine, session, req, memory>>

\* app.py:224-235: DELETE /users/<user_name>, the name taken from the list
\* that GET /users has just returned
DeleteUser ==
    /\ call.fn = "get_user_list"
    /\ call.collection = conversation_collection
    /\ \E i \in 1..Len(call.users), ok \in BOOLEAN :
          LET deleted == delete_user(conversation_collection,
                                     call.users[i].user_name, ok)
          IN  /\ conversation_collection' = deleted.collection
              /\ call' = [fn |-> "delete_user",
                          user_name |-> call.users[i].user_name,
                          listed |-> call.users[i],
                          collection |-> conversation_collection,
                          ok |-> ok,
                          result |-> deleted.result]
    /\ UNCHANGED <<crf_engine, session, req, turns>>

UsersReturn ==
    /\ call.fn \in {"get_user_list", "delete_user"}
    /\ call' = NoCall
    /\ UNCHANGED <<crf_engine, session, req, memory>>

NextUsers ==
    \/ UserChat
    \/ GetUsers
    \/ DeleteUser
    \/ UsersReturn

SpecUsers == InitUsers /\ [][NextUsers]_vars

\* the positions of the turns stored by the user user_name
StoredTurnsOf(collection, user_name) ==
    {i \in 1..Len(collection.docs) :
        collection.docs[i].session_id = FormatSessionId(user_name)}

\* get_user_list has answered: every user with a stored turn is listed once,
\* under the name given to /chat, with the number of the user's stored turns
C28_ListReportsStoredUsers ==
    (call.fn = "get_user_list" /\ call.ok) =>
        \A u \in UserNames :
            StoredTurnsOf(call.collection, u) # {} =>
                /\ Cardinality({i \in 1..Len(call.users) :
                                   call.users[i].user_name = u}) = 1
                /\ \A i \in 1..Len(call.users) :
                       call.users[i].user_name = u =>
                           call.users[i].total_conversations
                               = Cardinality(StoredTurnsOf(call.collection, u))

\* delete_user has deleted a listed name: the turns that the list counted
\* for the name are gone and every other turn is kept
C28_DeleteRemovesListedTurns ==
    (call.fn = "delete_user" /\ call.ok) =>
        LET before == call.collection.docs
            kept == SelectSeq([i \in 1..Len(before) |-> i], LAMBDA i :
                        i \notin CountedFor(call.collection, call.user_name))
        IN  conversation_collection.docs
                = [k \in 1..Len(kept) |-> before[kept[k]]]

(***************************************************************************)
(* C28: for every user name u accepted by /chat, once a turn of u is       *)
(* stored, get_user_list reports exactly the name u with                   *)
(* total_conversations equal to the number of stored turns of u, and       *)
(* delete_user called with a name taken from get_user_list removes exactly *)
(* the turns of that user and leaves the turns of every other user         *)
(* unchanged.                                                              *)
(***************************************************************************)
C28_UserListRoundTrip ==
    /\ C28_ListReportsStoredUsers
    /\ C28_DeleteRemovesListedTurns

====
